---- MODULE Spec2Model ----
(***************************************************************************)
(* Model of releng/integration.py: RefSpec, GerritIntegration (the calls   *)
(* the resolver makes), ProjectInfo, ProjectsManager and StatusReporter.   *)
(*                                                                         *)
(* Python strings that the code inspects (refspecs, branch names) are      *)
(* sequences of one-character strings, so that startswith, split, lower    *)
(* and slicing are computed as Python computes them.  Python None is the   *)
(* one-element sequence None, which is no string of characters.            *)
(***************************************************************************)
EXTENDS Integers, Sequences, FiniteSets, TLC

VARIABLES env, is_windows, manifests, projects, branch, pc, last, nops,
          checkouts, reporter

vars == <<env, is_windows, manifests, projects, branch, pc, last, nops,
          checkouts, reporter>>

\* checkouts is the workspace's side of the story: the calls of
\* workspace._checkout_project so far, in order, each with the project, the
\* refspec passed and whether the command succeeded.  reporter is the
\* build's StatusReporter.

-----------------------------------------------------------------------------
(* Bounds of the model *)

\* number of calls made on one ProjectInfo object in one behaviour
MaxOps == 3

\* number of calls made on one ProjectsManager in one behaviour
MaxMgrOps == 2

-----------------------------------------------------------------------------
(* Python values *)

None == <<"<None>">>

\* the BuildError instance that get_remote_hash returns (it does not raise it)
BuildErrorObj == <<"<BuildError>">>

EmptyStr == <<>>

\* bool(x) for x a string or None or an exception object
Truthy(x) == x # None /\ x # EmptyStr

S_HEAD == <<"H","E","A","D">>
S_FETCH_HEAD == <<"F","E","T","C","H","_","H","E","A","D">>
S_tarballs == <<"t","a","r","b","a","l","l","s","/">>
S_refs_changes == <<"r","e","f","s","/","c","h","a","n","g","e","s","/">>
S_refs_heads == <<"r","e","f","s","/","h","e","a","d","s","/">>
S_release == <<"r","e","l","e","a","s","e","-">>
S_master == <<"m","a","s","t","e","r">>
S_auto == <<"a","u","t","o">>
S_From_tarball == <<"From tarball">>

\* str.startswith
StartsWith(s, prefix) ==
    /\ Len(s) >= Len(prefix)
    /\ SubSeq(s, 1, Len(prefix)) = prefix

\* str.split(sep) for a one-character separator
RECURSIVE Split(_, _)
Split(s, sep) ==
    IF \E i \in 1..Len(s) : s[i] = sep
    THEN LET i == CHOOSE k \in 1..Len(s) :
                      s[k] = sep /\ \A j \in 1..(k-1) : s[j] # sep
         IN  <<SubSeq(s, 1, i-1)>> \o Split(SubSeq(s, i+1, Len(s)), sep)
    ELSE <<s>>

\* s[n:]
SliceFrom(s, n) == SubSeq(s, n + 1, Len(s))

LowerChar(c) ==
    CASE c = "A" -> "a" [] c = "U" -> "u" [] c = "T" -> "t" [] c = "O" -> "o"
      [] c = "H" -> "h" [] c = "E" -> "e" [] c = "D" -> "d" [] c = "F" -> "f"
      [] c = "C" -> "c"
      [] OTHER -> c

\* str.lower
Lower(s) == [i \in 1..Len(s) |-> LowerChar(s[i])]

-----------------------------------------------------------------------------
(* RefSpec *)

\* _tar_props of a refspec that is no tarball
NoTarProps == [exists |-> FALSE, has_head |-> FALSE, HEAD_HASH |-> None]

\* the refspec attribute of a ProjectInfo that has none (Python None)
NoRefSpec == [value |-> None, remote |-> None, branch |-> None,
              change_number |-> None, tar_props |-> NoTarProps]

is_tarball_refspec(value) ==
    IF value = None THEN FALSE ELSE StartsWith(value, S_tarballs)

\* mutant: checkout is the remote hash even when it is the value itself
checkout_remote(r) == r.remote

\* mutant: the branch of a refs/heads/ value is not parsed
RefSpecNewNoBranch(value, remote_hash, executor, manifest) ==
    LET remote0 == IF Truthy(remote_hash) THEN remote_hash ELSE value
        base == [value |-> value, remote |-> remote0, branch |-> None,
                 change_number |-> None, tar_props |-> NoTarProps]
    IN  IF is_tarball_refspec(value)
        THEN IF ~executor
             THEN [raised |-> "AssertionError", ref |-> NoRefSpec]
             ELSE IF ~manifest.exists
             THEN [raised |-> "IOError", ref |-> NoRefSpec]
             ELSE IF ~manifest.has_head
             THEN [raised |-> "KeyError", ref |-> NoRefSpec]
             ELSE [raised |-> "none",
                   ref |-> [base EXCEPT !.tar_props = manifest,
                                        !.remote = manifest.HEAD_HASH]]
        ELSE IF value = None
        THEN [raised |-> "AttributeError", ref |-> NoRefSpec]
        ELSE IF StartsWith(value, S_refs_changes)
        THEN IF Len(Split(value, "/")) < 4
             THEN [raised |-> "IndexError", ref |-> NoRefSpec]
             ELSE [raised |-> "none",
                   ref |-> [base EXCEPT !.change_number = Split(value, "/")[4]]]
        ELSE [raised |-> "none", ref |-> base]

\* RefSpec.__init__: the object built, or the exception raised.
\* executor is TRUE when an executor is passed; manifest is what
\* read_property_file finds at value/package-info.log.
RefSpecNew(value, remote_hash, executor, manifest) ==
    LET remote0 == IF Truthy(remote_hash) THEN remote_hash ELSE value
        base == [value |-> value, remote |-> remote0, branch |-> None,
                 change_number |-> None, tar_props |-> NoTarProps]
    IN  IF is_tarball_refspec(value)
        THEN IF ~executor
             THEN [raised |-> "AssertionError", ref |-> NoRefSpec]
             ELSE IF ~manifest.exists
             THEN [raised |-> "IOError", ref |-> NoRefSpec]
             ELSE IF ~manifest.has_head
             THEN [raised |-> "KeyError", ref |-> NoRefSpec]
             ELSE [raised |-> "none",
                   ref |-> [base EXCEPT !.tar_props = manifest,
                                        !.remote = manifest.HEAD_HASH]]
        ELSE IF value = None
        THEN [raised |-> "AttributeError", ref |-> NoRefSpec]
        ELSE IF StartsWith(value, S_refs_changes)
        THEN IF Len(Split(value, "/")) < 4
             THEN [raised |-> "IndexError", ref |-> NoRefSpec]
             ELSE [raised |-> "none",
                   ref |-> [base EXCEPT !.change_number = Split(value, "/")[4]]]
        ELSE IF StartsWith(value, S_refs_heads)
        THEN [raised |-> "none",
              ref |-> [base EXCEPT !.branch = Split(value, "/")[3]]]
        ELSE [raised |-> "none", ref |-> base]

is_no_op(r) == r.value = S_HEAD

is_static(r) == StartsWith(r.value, S_refs_changes)

fetch(r) == r.value

checkout(r) == IF r.remote = r.value THEN S_FETCH_HEAD ELSE r.remote

is_tarball(r) == r.tar_props # NoTarProps

-----------------------------------------------------------------------------
(* Outcomes of the collaborators' commands, chosen by the environment *)

T1 == <<"title-1">>
T2 == <<"title-2">>
H1 == <<"hash-1">>
H2 == <<"hash-2">>
B_release == S_release \o <<"2","1">>
B_slash == <<"a","/","b">>

Hashes == {H1, H2}
Titles == {T1}
ChangeBranches == {B_release, B_slash}

\* workspace._get_git_commit_info: (title, hash), a failure of the git
\* command, or (None, None) where allow_none permits it
WsOutcomes == [kind : {"ok"}, title : Titles, hash : Hashes]
              \cup {[kind |-> "raise", title |-> None, hash |-> None]}
WsOutcomesAllowNone ==
    WsOutcomes \cup {[kind |-> "none", title |-> None, hash |-> None]}

\* output of git ls-remote: a line "hash ref", nothing, or a failure
RhOutcomes == [kind : {"ok"}, hash : Hashes]
              \cup {[kind |-> "missing", hash |-> None],
                    [kind |-> "raise", hash |-> None]}

\* output of gerrit query: nlines lines (the last one the statistics row),
\* the first of them the change, or a failure of the ssh command
NoChange == [branch |-> None, title |-> None]
Changes == [branch : ChangeBranches, title : {T2}]
QcOutcomes == [kind : {"ok"}, nlines : {1, 2, 3}, change : Changes]
              \cup {[kind |-> "raise", nlines |-> 0, change |-> NoChange]}

-----------------------------------------------------------------------------
(* GerritIntegration *)

\* get_remote_hash: a missing ref makes it return a BuildError instance
get_remote_hash(refspec, rh) ==
    IF refspec = NoRefSpec
    THEN [raised |-> "AttributeError", hash |-> None, calls |-> <<>>]
    ELSE IF rh.kind = "raise"
    THEN [raised |-> "CommandError", hash |-> None,
          calls |-> <<"gerrit.get_remote_hash">>]
    ELSE IF rh.kind = "missing"
    THEN [raised |-> "none", hash |-> BuildErrorObj,
          calls |-> <<"gerrit.get_remote_hash">>]
    ELSE [raised |-> "none", hash |-> rh.hash,
          calls |-> <<"gerrit.get_remote_hash">>]

\* mutant: more than one match is accepted whatever expect_unique is
query_change_first_of_many(windows, expect_unique, qc) ==
    IF windows
    THEN [raised |-> "none", change |-> NoChange, calls |-> <<>>]
    ELSE IF qc.kind = "raise"
    THEN [raised |-> "CommandError", change |-> NoChange,
          calls |-> <<"gerrit.query_change">>]
    ELSE IF qc.nlines < 2
    THEN [raised |-> "BuildError", change |-> NoChange,
          calls |-> <<"gerrit.query_change">>]
    ELSE [raised |-> "none", change |-> qc.change,
          calls |-> <<"gerrit.query_change">>]

query_change(windows, expect_unique, qc) ==
    IF windows
    THEN [raised |-> "none", change |-> NoChange, calls |-> <<>>]
    ELSE IF qc.kind = "raise"
    THEN [raised |-> "CommandError", change |-> NoChange,
          calls |-> <<"gerrit.query_change">>]
    ELSE IF qc.nlines < 2
    THEN [raised |-> "BuildError", change |-> NoChange,
          calls |-> <<"gerrit.query_change">>]
    ELSE IF qc.nlines > 2 /\ expect_unique
    THEN [raised |-> "BuildError", change |-> NoChange,
          calls |-> <<"gerrit.query_change">>]
    ELSE [raised |-> "none", change |-> qc.change,
          calls |-> <<"gerrit.query_change">>]

-----------------------------------------------------------------------------
(* ProjectInfo: each method gives the object after the call, the exception *)
(* raised ("none" when it returns) and the collaborator calls it made      *)

\* mutant: every call overwrites the branch
set_branch_overwrite(info, b) == [info EXCEPT !.branch = b]

set_branch(info, b) ==
    IF info.branch = None THEN [info EXCEPT !.branch = b] ELSE info

ProjectInfoNew(project, refspec) ==
    LET base == [project |-> project, branch |-> None, refspec |-> refspec,
                 head_hash |-> None, head_title |-> None,
                 remote_hash |-> None, is_checked_out |-> FALSE]
    IN  IF refspec = NoRefSpec THEN base
        ELSE LET b == set_branch(base, refspec.branch)
             IN  IF is_tarball(refspec)
                 THEN [b EXCEPT !.head_hash = checkout(refspec),
                                !.head_title = S_From_tarball,
                                !.remote_hash = checkout(refspec)]
                 ELSE b

info_is_tarball(info) ==
    info.refspec # NoRefSpec /\ is_tarball(info.refspec)

\* mutant: a checked-out project is taken back to not checked out
override_refspec_uncheckout(info, refspec) ==
    LET i1 == [info EXCEPT !.refspec = refspec, !.is_checked_out = FALSE]
    IN  IF refspec = NoRefSpec
        THEN [info |-> i1, raised |-> "AttributeError", calls |-> <<>>]
        ELSE IF Truthy(refspec.branch)
        THEN [info |-> [i1 EXCEPT !.branch = refspec.branch],
              raised |-> "none", calls |-> <<>>]
        ELSE [info |-> i1, raised |-> "none", calls |-> <<>>]

\* mutant: the assertion on is_checked_out is missing
override_refspec_unguarded(info, refspec) ==
    LET i1 == [info EXCEPT !.refspec = refspec]
    IN  IF refspec = NoRefSpec
        THEN [info |-> i1, raised |-> "AttributeError", calls |-> <<>>]
        ELSE IF Truthy(refspec.branch)
        THEN [info |-> [i1 EXCEPT !.branch = refspec.branch],
              raised |-> "none", calls |-> <<>>]
        ELSE [info |-> i1, raised |-> "none", calls |-> <<>>]

override_refspec(info, refspec) ==
    IF info.is_checked_out
    THEN [info |-> info, raised |-> "AssertionError", calls |-> <<>>]
    ELSE LET i1 == [info EXCEPT !.refspec = refspec]
         IN  IF refspec = NoRefSpec
             THEN [info |-> i1, raised |-> "AttributeError", calls |-> <<>>]
             ELSE IF Truthy(refspec.branch)
             THEN [info |-> [i1 EXCEPT !.branch = refspec.branch],
                   raised |-> "none", calls |-> <<>>]
             ELSE [info |-> i1, raised |-> "none", calls |-> <<>>]

\* mutant: the remote hash comes from git ls-remote for every refspec
checked_out_always_looked_up(i1, ws, rh) ==
    LET c1 == <<"workspace._get_git_commit_info">>
    IN  IF ws.kind # "ok"
        THEN [info |-> i1, raised |-> "CommandError", calls |-> c1]
        ELSE LET i2 == [i1 EXCEPT !.head_title = ws.title,
                                  !.head_hash = ws.hash]
             IN  IF i2.refspec = NoRefSpec
                 THEN [info |-> i2, raised |-> "AttributeError", calls |-> c1]
                 ELSE LET r == get_remote_hash(i2.refspec, rh)
                      IN  IF r.raised # "none"
                          THEN [info |-> i2, raised |-> r.raised,
                                calls |-> c1 \o r.calls]
                          ELSE [info |-> [i2 EXCEPT !.remote_hash = r.hash],
                                raised |-> "none", calls |-> c1 \o r.calls]

\* set_checked_out after the tarball test: lines 240-244
checked_out_from_git(i1, ws, rh) ==
    LET c1 == <<"workspace._get_git_commit_info">>
    IN  IF ws.kind # "ok"
        THEN [info |-> i1, raised |-> "CommandError", calls |-> c1]
        ELSE LET i2 == [i1 EXCEPT !.head_title = ws.title,
                                  !.head_hash = ws.hash]
             IN  IF i2.refspec = NoRefSpec
                 THEN [info |-> i2, raised |-> "AttributeError", calls |-> c1]
                 ELSE IF is_static(i2.refspec)
                 THEN LET r == get_remote_hash(i2.refspec, rh)
                      IN  IF r.raised # "none"
                          THEN [info |-> i2, raised |-> r.raised,
                                calls |-> c1 \o r.calls]
                          ELSE [info |-> [i2 EXCEPT !.remote_hash = r.hash],
                                raised |-> "none", calls |-> c1 \o r.calls]
                 ELSE [info |-> [i2 EXCEPT !.remote_hash = i2.head_hash],
                       raised |-> "none", calls |-> c1]

\* mutant: a tarball is not told apart and its commit is read from git
set_checked_out_reads_tarball(info, ws, rh) ==
    checked_out_from_git([info EXCEPT !.is_checked_out = TRUE], ws, rh)

set_checked_out(info, ws, rh) ==
    LET i1 == [info EXCEPT !.is_checked_out = TRUE]
    IN  IF info_is_tarball(i1)
        THEN [info |-> i1, raised |-> "none", calls |-> <<>>]
        ELSE checked_out_from_git(i1, ws, rh)

load_from_gerrit(info, windows, qc) ==
    IF info.head_title = None \/ info.branch = None
    THEN IF info.refspec = NoRefSpec
         THEN [info |-> info, raised |-> "AttributeError", calls |-> <<>>]
         ELSE LET q == IF Truthy(info.refspec.change_number)
                       THEN query_change(windows, TRUE, qc)
                       ELSE IF Truthy(info.head_hash)
                       THEN IF info.head_hash = BuildErrorObj
                            THEN [raised |-> "TypeError", change |-> NoChange,
                                  calls |-> <<>>]
                            ELSE query_change(windows, FALSE, qc)
                       ELSE [raised |-> "none", change |-> NoChange,
                             calls |-> <<>>]
              IN  IF q.raised # "none"
                  THEN [info |-> info, raised |-> q.raised, calls |-> q.calls]
                  ELSE IF q.change = NoChange
                  THEN [info |-> info, raised |-> "none", calls |-> q.calls]
                  ELSE LET i1 == IF info.head_title = None
                                 THEN [info EXCEPT !.head_title = q.change.title]
                                 ELSE info
                           i2 == IF i1.branch = None
                                 THEN [i1 EXCEPT !.branch = q.change.branch]
                                 ELSE i1
                       IN  [info |-> i2, raised |-> "none", calls |-> q.calls]
    ELSE [info |-> info, raised |-> "none", calls |-> <<>>]

ensure_branch_loaded(info, windows, qc) ==
    IF ~Truthy(info.branch)
    THEN load_from_gerrit(info, windows, qc)
    ELSE [info |-> info, raised |-> "none", calls |-> <<>>]

\* mutant: the hashes are read again for a checked-out project as well
load_missing_info_always(info, windows, rh, ws, qc) ==
    IF info_is_tarball(info)
    THEN [info |-> info, raised |-> "none", calls |-> <<>>]
    ELSE LET h == IF rh.kind = "ok" THEN rh.hash ELSE H2
             i1 == [info EXCEPT !.head_hash = h, !.remote_hash = h]
         IN  load_from_gerrit(i1, windows, qc)

load_missing_info(info, windows, rh, ws, qc) ==
    IF info_is_tarball(info)
    THEN [info |-> info, raised |-> "none", calls |-> <<>>]
    ELSE IF ~info.is_checked_out
    THEN LET r == get_remote_hash(info.refspec, rh)
         IN  IF r.raised # "none"
             THEN [info |-> info, raised |-> r.raised, calls |-> r.calls]
             ELSE LET i1 == [info EXCEPT !.head_hash = r.hash,
                                         !.remote_hash = r.hash]
                      c1 == r.calls \o <<"workspace._get_git_commit_info">>
                  IN  IF ws.kind = "raise"
                      THEN [info |-> i1, raised |-> "CommandError",
                            calls |-> c1]
                      ELSE LET i2 == [i1 EXCEPT !.head_title = ws.title]
                               g == load_from_gerrit(i2, windows, qc)
                           IN  [g EXCEPT !.calls = c1 \o g.calls]
    ELSE load_from_gerrit(info, windows, qc)

\* mutant: the slice is one character short of the prefix
build_branch_label_slice7(info) ==
    IF info.branch # None /\ StartsWith(info.branch, S_release)
    THEN SliceFrom(info.branch, 7)
    ELSE info.branch

build_branch_label(info) ==
    IF info.branch # None /\ StartsWith(info.branch, S_release)
    THEN SliceFrom(info.branch, 8)
    ELSE info.branch

has_correct_hash(info) == info.head_hash = info.remote_hash


-----------------------------------------------------------------------------
(* Project (common.py): the closed set of repositories, in _values order *)

RELENG == "releng"
ProjectValues == <<"gromacs", "regressiontests", "releng">>
Projects == {ProjectValues[i] : i \in 1..Len(ProjectValues)}
NoProject == "<None>"

-----------------------------------------------------------------------------
(* Inputs the callers pass *)

V_static == S_refs_changes \o <<"1","2","/","7","/","3">>
V_master == S_refs_heads \o S_master
V_release == S_refs_heads \o B_release
V_slash == S_refs_heads \o B_slash
V_tar == S_tarballs \o <<"x">>
V_other == <<"x">>

GoodManifests == [exists : {TRUE}, has_head : {TRUE}, HEAD_HASH : {H1, V_tar}]
Manifests == GoodManifests
             \cup {[exists |-> TRUE, has_head |-> FALSE, HEAD_HASH |-> None],
                   NoTarProps}

\* refspec objects a caller can hold: every kind, with and without a hash
CallerRefSpecs ==
    {RefSpecNew(v, None, FALSE, NoTarProps).ref : v \in {S_HEAD, V_slash}}
    \cup {RefSpecNew(v, H1, FALSE, NoTarProps).ref : v \in {V_static, V_master}}
    \cup {RefSpecNew(V_tar, None, TRUE, m).ref : m \in GoodManifests}

BranchNames == {S_master, B_release}

-----------------------------------------------------------------------------
(* StatusReporter: the object and what __exit__ leaves behind *)

\* nothing written to the status file, nothing returned yet
NoContents == [kind |-> "none", result |-> "none", text |-> None]
NoExit == [exc |-> "none", result |-> "none", reason |-> None,
           contents |-> NoContents, returned |-> "none", raised |-> "none",
           exit_code |-> 0]

\* StatusReporter.__init__: json is whether STATUS_FILE ends in .json.  marks
\* are the calls of mark_failed and mark_unstable made so far, by name.
StatusReporterNew(json, propagate) ==
    [phase |-> "open", json |-> json, propagate_failure |-> propagate,
     failed |-> FALSE, aborted |-> FALSE, unsuccessful_reason |-> <<>>,
     marks |-> <<>>, exit |-> NoExit]

\* no StatusReporter in this build
NoReporter == [StatusReporterNew(FALSE, FALSE) EXCEPT !.phase = "absent"]

-----------------------------------------------------------------------------
(* The record of the last call: what was called, on which project, with    *)
(* which arguments, the object before the call, and what the call did      *)

NoInfo == ProjectInfoNew(NoProject, NoRefSpec)

\* no commit info read, no remote hash asked for
NoWs == [kind |-> "unused", title |-> None, hash |-> None]
NoRh == [kind |-> "unused", hash |-> None]

NoCall == [op |-> "none", proj |-> NoProject, argb |-> None,
           argr |-> NoRefSpec, pre |-> NoInfo, raised |-> "none",
           calls |-> <<>>, out |-> <<>>, examined |-> <<>>, label |-> None,
           stage |-> "none", flag |-> FALSE, output |-> <<>>,
           change |-> NoChange, hash |-> None, ret |-> NoInfo,
           props |-> [is_no_op |-> FALSE, is_tarball |-> FALSE,
                      is_static |-> FALSE, fetch |-> None,
                      checkout |-> None],
           ws |-> NoWs, rh |-> NoRh]

\* a method of projects[p] was called and gave res; ws and rh are what
\* the workspace and git ls-remote gave in it, where they were asked
InfoCallWith(bound, op, p, argb, argr, res, ws, rh) ==
    /\ pc = "ready"
    /\ nops < bound
    /\ p \in DOMAIN projects
    /\ projects' = [projects EXCEPT ![p] = res.info]
    /\ last' = [NoCall EXCEPT !.op = op, !.proj = p, !.argb = argb,
                              !.argr = argr, !.pre = projects[p],
                              !.raised = res.raised, !.calls = res.calls,
                              !.ws = ws, !.rh = rh]
    /\ nops' = nops + 1
    /\ UNCHANGED <<env, is_windows, manifests, branch, pc, checkouts,
                   reporter>>

InfoCallN(bound, op, p, argb, argr, res) ==
    InfoCallWith(bound, op, p, argb, argr, res, NoWs, NoRh)

InfoCall(op, p, argb, argr, res) ==
    InfoCallN(MaxOps, op, p, argb, argr, res)

InfoSetBranch(p, b) ==
    InfoCall("set_branch", p, b, NoRefSpec,
             [info |-> set_branch(projects[p], b), raised |-> "none",
              calls |-> <<>>])

InfoOverrideRefspec(p, r) ==
    InfoCall("override_refspec", p, None, r, override_refspec(projects[p], r))

\* the outcomes a call can have, when the call is made at all
WsIf(needed, S) ==
    IF needed THEN S ELSE {[kind |-> "raise", title |-> None, hash |-> None]}
RhIf(needed) ==
    IF needed THEN RhOutcomes ELSE {[kind |-> "raise", hash |-> None]}
QcIf(needed) ==
    IF needed THEN QcOutcomes
    ELSE {[kind |-> "raise", nlines |-> 0, change |-> NoChange]}

Calls(res, name) == \E i \in 1..Len(res.calls) : res.calls[i] = name

InfoSetCheckedOut(p) ==
    \E ws \in WsIf(p \in DOMAIN projects /\ ~info_is_tarball(projects[p]),
                   WsOutcomes) :
    \E rh \in RhIf(p \in DOMAIN projects
                   /\ Calls(set_checked_out(projects[p], ws,
                                            [kind |-> "ok", hash |-> H1]),
                            "gerrit.get_remote_hash")) :
      \E res \in {set_checked_out(projects[p], ws, rh)} :
        InfoCallWith(MaxOps, "set_checked_out", p, None, NoRefSpec, res,
                     IF Calls(res, "workspace._get_git_commit_info")
                     THEN ws ELSE NoWs,
                     IF Calls(res, "gerrit.get_remote_hash")
                     THEN rh ELSE NoRh)

InfoEnsureBranchLoaded(p) ==
    \E qc \in QcIf(~is_windows) :
        InfoCall("ensure_branch_loaded", p, None, NoRefSpec,
                 ensure_branch_loaded(projects[p], is_windows, qc))

InfoLoadMissingInfo(p) ==
    \E rh \in RhIf(p \in DOMAIN projects /\ ~projects[p].is_checked_out) :
    \E ws \in WsIf(rh.kind # "raise", WsOutcomesAllowNone) :
    \E qc \in QcIf(~is_windows) :
        InfoCall("load_missing_info", p, None, NoRefSpec,
                 load_missing_info(projects[p], is_windows, rh, ws, qc))

\* to_dict: the display label is the part the model keeps
InfoToDict(p) ==
    /\ pc = "ready"
    /\ nops < MaxOps
    /\ p \in DOMAIN projects
    /\ last' = [NoCall EXCEPT !.op = "to_dict", !.proj = p,
                              !.pre = projects[p],
                              !.label = build_branch_label(projects[p])]
    /\ nops' = nops + 1
    /\ UNCHANGED <<env, is_windows, manifests, projects, branch, pc,
                   checkouts, reporter>>

-----------------------------------------------------------------------------
(* One ProjectInfo object and the calls of its methods *)

NoEnv == [REFSPEC |-> [p \in Projects |-> None],
          HASH |-> [p \in Projects |-> None],
          CHECKOUT_PROJECT |-> NoProject, CHECKOUT_REFSPEC |-> None,
          GERRIT_PROJECT |-> NoProject, GERRIT_BRANCH |-> None,
          GERRIT_REFSPEC |-> None]

NoManifests == [v \in {V_tar} |-> NoTarProps]

InitInfo ==
    /\ env = NoEnv
    /\ is_windows \in BOOLEAN
    /\ manifests = NoManifests
    /\ \E r \in CallerRefSpecs \cup {NoRefSpec} :
           projects = [p \in {"gromacs"} |-> ProjectInfoNew(p, r)]
    /\ branch = None
    /\ pc = "ready"
    /\ last = NoCall
    /\ nops = 0
    /\ checkouts = <<>>
    /\ reporter = NoReporter

NextInfo ==
    \E p \in {"gromacs"} :
        \/ \E b \in BranchNames : InfoSetBranch(p, b)
        \/ \E r \in CallerRefSpecs : InfoOverrideRefspec(p, r)
        \/ InfoSetCheckedOut(p)
        \/ InfoEnsureBranchLoaded(p)
        \/ InfoLoadMissingInfo(p)

SpecInfo == InitInfo /\ [][NextInfo]_vars


-----------------------------------------------------------------------------
(* ProjectsManager._init_projects, stage by stage.  A stage gives the      *)
(* manager's fields after it, the exception raised in it, and the calls.   *)

\* Project.parse
ParseProject(name) ==
    IF name \in Projects
    THEN [raised |-> "none", project |-> name]
    ELSE [raised |-> "ConfigurationError", project |-> NoProject]

\* utils.read_property_file on value/package-info.log
ManifestAt(mans, value) ==
    IF value \in DOMAIN mans THEN mans[value] ELSE NoTarProps

parse_refspec(e, mans, p) ==
    LET refspec == e.REFSPEC[p]
    IN  IF Truthy(refspec) /\ Lower(refspec) # S_auto
        THEN LET r == RefSpecNew(refspec, e.HASH[p], TRUE,
                                 ManifestAt(mans, refspec))
             IN  [raised |-> r.raised, ref |-> r.ref, exists |-> TRUE]
        ELSE [raised |-> "none", ref |-> NoRefSpec,
              exists |-> refspec # None]

Put(f, k, v) == [x \in DOMAIN f \cup {k} |-> IF x = k THEN v ELSE f[x]]

EmptyProjects == [x \in {} |-> NoInfo]

\* the loop over Project._values that fills _projects
RECURSIVE LoadProjects(_, _, _, _)
LoadProjects(e, mans, i, acc) ==
    IF i > Len(ProjectValues)
    THEN [raised |-> "none", projects |-> acc]
    ELSE LET p == ProjectValues[i]
             pr == parse_refspec(e, mans, p)
         IN  IF pr.raised # "none"
             THEN [raised |-> pr.raised, projects |-> acc]
             ELSE LoadProjects(e, mans, i + 1,
                               IF pr.exists
                               THEN Put(acc, p, ProjectInfoNew(p, pr.ref))
                               ELSE acc)

Mgr(ps, b, raised, calls) ==
    [projects |-> ps, branch |-> b, raised |-> raised, calls |-> calls]

\* mutant: the trigger's refspec replaces a tarball as well
TriggerStageOverTarball(m, e) ==
    IF e.GERRIT_PROJECT = NoProject THEN m
    ELSE LET pp == ParseProject(e.GERRIT_PROJECT)
             gp == pp.project
         IN  IF pp.raised # "none"
             THEN [m EXCEPT !.raised = pp.raised]
             ELSE IF gp \notin DOMAIN m.projects
             THEN [m EXCEPT !.raised = "KeyError"]
             ELSE
             LET i1 == set_branch(m.projects[gp], e.GERRIT_BRANCH)
                 b1 == IF gp # RELENG THEN e.GERRIT_BRANCH ELSE m.branch
                 m1 == [m EXCEPT !.projects[gp] = i1, !.branch = b1]
             IN  IF e.GERRIT_REFSPEC = None
                 THEN [m1 EXCEPT !.raised = "ConfigurationError"]
                 ELSE LET r == RefSpecNew(e.GERRIT_REFSPEC, None, FALSE,
                                          NoTarProps)
                      IN  IF r.raised # "none"
                          THEN [m1 EXCEPT !.raised = r.raised]
                          ELSE LET o == override_refspec(i1, r.ref)
                               IN  [m1 EXCEPT !.projects[gp] = o.info,
                                              !.raised = o.raised]

\* lines 335-344: the triggering change
TriggerStage(m, e) ==
    IF e.GERRIT_PROJECT = NoProject THEN m
    ELSE LET pp == ParseProject(e.GERRIT_PROJECT)
             gp == pp.project
         IN  IF pp.raised # "none"
             THEN [m EXCEPT !.raised = pp.raised]
             ELSE IF gp \notin DOMAIN m.projects
             THEN [m EXCEPT !.raised = "KeyError"]
             ELSE
             LET i1 == set_branch(m.projects[gp], e.GERRIT_BRANCH)
                 b1 == IF gp # RELENG THEN e.GERRIT_BRANCH ELSE m.branch
                 m1 == [m EXCEPT !.projects[gp] = i1, !.branch = b1]
             IN  IF info_is_tarball(i1) THEN m1
                 ELSE IF e.GERRIT_REFSPEC = None
                 THEN [m1 EXCEPT !.raised = "ConfigurationError"]
                 ELSE LET r == RefSpecNew(e.GERRIT_REFSPEC, None, FALSE,
                                          NoTarProps)
                      IN  IF r.raised # "none"
                          THEN [m1 EXCEPT !.raised = r.raised]
                          ELSE LET o == override_refspec(i1, r.ref)
                               IN  [m1 EXCEPT !.projects[gp] = o.info,
                                              !.raised = o.raised]

\* mutant: the refspec of the extra checkout is built without its hash
CheckoutStageNoHash(m, e, cp) ==
    IF cp = NoProject \/ e.CHECKOUT_REFSPEC = None THEN m
    ELSE IF cp \notin DOMAIN m.projects
    THEN [m EXCEPT !.raised = "KeyError"]
    ELSE LET r == RefSpecNew(e.CHECKOUT_REFSPEC, None, FALSE, NoTarProps)
         IN  IF r.raised # "none"
             THEN [m EXCEPT !.raised = r.raised]
             ELSE LET o == override_refspec(m.projects[cp], r.ref)
                  IN  [m EXCEPT !.projects[cp] = o.info, !.raised = o.raised]

\* lines 345-350: the extra checkout request
CheckoutStage(m, e, cp) ==
    IF cp = NoProject \/ e.CHECKOUT_REFSPEC = None THEN m
    ELSE IF cp \notin DOMAIN m.projects
    THEN [m EXCEPT !.raised = "KeyError"]
    ELSE LET r == RefSpecNew(e.CHECKOUT_REFSPEC, e.HASH[cp], FALSE, NoTarProps)
         IN  IF r.raised # "none"
             THEN [m EXCEPT !.raised = r.raised]
             ELSE LET o == override_refspec(m.projects[cp], r.ref)
                  IN  [m EXCEPT !.projects[cp] = o.info, !.raised = o.raised]

Missing(ps) == {p \in DOMAIN ps : ps[p].refspec = NoRefSpec}
Known(ps) == {p \in DOMAIN ps : ps[p].refspec # NoRefSpec /\ p # RELENG}

\* mutant: the refspec is given to every project, missing or not
OverrideAllProjects(ps, S, refspec) ==
    [p \in DOMAIN ps |-> override_refspec(ps[p], refspec).info]

OverrideAll(ps, S, refspec) ==
    [p \in DOMAIN ps |->
        IF p \in S THEN override_refspec(ps[p], refspec).info ELSE ps[p]]

\* line 379: ensure_branch_loaded on the one known project k
known_branch_lookup(m, k, windows, qc) ==
    LET g == ensure_branch_loaded(m.projects[k], windows, qc)
    IN  [m EXCEPT !.projects[k] = g.info, !.raised = g.raised,
                  !.calls = m.calls \o g.calls]

\* mutant: the branch of the known project is looked up and not adopted
resolve_global_branch_not_adopted(m, windows, qc) ==
    LET known == Known(m.projects)
    IN  IF ~Truthy(m.branch) /\ known # {}
        THEN IF Cardinality(known) # 1
             THEN [m EXCEPT !.raised = "AssertionError"]
             ELSE known_branch_lookup(m, CHOOSE p \in known : TRUE,
                                      windows, qc)
        ELSE m

\* mutant: the number of known projects is not asserted
resolve_global_branch_any_known(m, windows, qc) ==
    LET known == Known(m.projects)
    IN  IF ~Truthy(m.branch) /\ known # {}
        THEN LET k == CHOOSE p \in known : TRUE
                 r == known_branch_lookup(m, k, windows, qc)
             IN  IF r.raised # "none" THEN r
                 ELSE [r EXCEPT !.branch = r.projects[k].branch]
        ELSE m

\* lines 376-380: the global branch taken from the one known project
resolve_global_branch(m, windows, qc) ==
    LET known == Known(m.projects)
    IN  IF ~Truthy(m.branch) /\ known # {}
        THEN IF Cardinality(known) # 1
             THEN [m EXCEPT !.raised = "AssertionError"]
             ELSE LET k == CHOOSE p \in known : TRUE
                      r == known_branch_lookup(m, k, windows, qc)
                  IN  IF r.raised # "none" THEN r
                      ELSE [r EXCEPT !.branch = r.projects[k].branch]
        ELSE m

\* mutant: another default branch name
default_branch_main(b) == IF ~Truthy(b) THEN <<"m","a","i","n">> ELSE b

\* lines 381-382
default_branch(b) == IF ~Truthy(b) THEN S_master ELSE b

resolve_missing_refspecs(m, windows, qc) ==
    IF Missing(m.projects) = {} THEN m
    ELSE
    LET m1 == resolve_global_branch(m, windows, qc)
    IN  IF m1.raised # "none" THEN m1
        ELSE LET b == default_branch(m1.branch)
                 refspec == RefSpecNew(S_refs_heads \o b, None, FALSE,
                                       NoTarProps).ref
             IN  [m1 EXCEPT !.branch = b,
                            !.projects = OverrideAll(m1.projects,
                                                     Missing(m1.projects),
                                                     refspec)]

\* lines 354-355: set_checked_out for the initial projects, in the order
\* the set yields them
RECURSIVE CheckoutInitial(_, _, _, _)
CheckoutInitial(m, order, wsf, rhf) ==
    IF order = <<>> \/ m.raised # "none" THEN m
    ELSE LET p == Head(order)
         IN  IF p \notin DOMAIN m.projects
             THEN [m EXCEPT !.raised = "KeyError"]
             ELSE LET c == set_checked_out(m.projects[p], wsf[p], rhf[p])
                  IN  CheckoutInitial([m EXCEPT !.projects[p] = c.info,
                                                !.raised = c.raised,
                                                !.calls = m.calls \o c.calls],
                                      Tail(order), wsf, rhf)

\* mutant: the set of initial projects starts empty
InitialOrdersOnRequest(cp) ==
    IF cp = NoProject THEN {<<>>} ELSE {<<cp>>}

InitialOrders(cp) ==
    IF cp = NoProject \/ cp = RELENG THEN {<<RELENG>>}
    ELSE {<<RELENG, cp>>, <<cp, RELENG>>}

\* line 333: _parse_checkout_project
parse_checkout_project(e) ==
    IF e.CHECKOUT_PROJECT = NoProject
    THEN [raised |-> "none", project |-> NoProject]
    ELSE ParseProject(e.CHECKOUT_PROJECT)

\* lines 328-333: the registry, and CHECKOUT_PROJECT parsed
InitBeforeTrigger(e, mans) ==
    LET l == LoadProjects(e, mans, 1, EmptyProjects)
        m0 == Mgr(l.projects, None, l.raised, <<>>)
    IN  IF m0.raised # "none" THEN m0
        ELSE [m0 EXCEPT !.raised = parse_checkout_project(e).raised]

\* lines 328-344: the registry and the trigger
InitAfterTrigger(e, mans) ==
    LET m1 == InitBeforeTrigger(e, mans)
    IN  IF m1.raised # "none" THEN m1 ELSE TriggerStage(m1, e)

\* lines 328-350: the registry, the trigger and the extra checkout
InitBeforeResolve(e, mans) ==
    LET m2 == InitAfterTrigger(e, mans)
    IN  IF m2.raised # "none" THEN m2
        ELSE CheckoutStage(m2, e, parse_checkout_project(e).project)

\* line 352: _resolve_missing_refspecs, reached when nothing was raised
ResolveStage(m3, windows, qc) ==
    IF m3.raised # "none" THEN m3
    ELSE resolve_missing_refspecs(m3, windows, qc)

OkQc == [kind |-> "ok", nlines |-> 2,
         change |-> [branch |-> B_release, title |-> T2]]
OkRh == [kind |-> "ok", hash |-> H1]
OkWs == [kind |-> "ok", title |-> T1, hash |-> H1]

\* the outcomes of the commands set_checked_out runs for project p
WsForInit(m, p) ==
    WsIf(p \in DOMAIN m.projects /\ ~info_is_tarball(m.projects[p]),
         WsOutcomes)
RhForInit(m, p) ==
    RhIf(p \in DOMAIN m.projects
         /\ Calls(set_checked_out(m.projects[p], OkWs, OkRh),
                  "gerrit.get_remote_hash"))

\* ProjectsManager.__init__
Construct ==
    /\ pc = "new"
    /\ \E m3 \in {InitBeforeResolve(env, manifests)} :
       \E need \in {Calls(ResolveStage(m3, is_windows, OkQc),
                           "gerrit.query_change")} :
       \E qc \in QcIf(need) :
       \E m \in {ResolveStage(m3, is_windows, qc)} :
       \E cp \in {IF env.CHECKOUT_PROJECT \in Projects
                  THEN env.CHECKOUT_PROJECT ELSE NoProject} :
       \E order \in InitialOrders(cp) :
       \E ws1 \in WsForInit(m, RELENG), rh1 \in RhForInit(m, RELENG) :
       \E ws2 \in (IF Len(order) = 2 THEN WsForInit(m, cp) ELSE {OkWs}) :
       \E rh2 \in (IF Len(order) = 2 THEN RhForInit(m, cp) ELSE {OkRh}) :
       \E f \in {CheckoutInitial(
                    m, order,
                    [p \in Projects |-> IF p = RELENG THEN ws1 ELSE ws2],
                    [p \in Projects |-> IF p = RELENG THEN rh1 ELSE rh2])} :
          /\ projects' = f.projects
          /\ branch' = f.branch
          /\ pc' = IF f.raised = "none" THEN "ready" ELSE "failed"
          /\ last' = [NoCall EXCEPT
                          !.op = "init", !.raised = f.raised,
                          !.calls = f.calls,
                          !.stage =
                              IF m3.raised # "none" THEN "inputs"
                              ELSE IF m.raised # "none" THEN "resolve"
                              ELSE IF f.raised # "none" THEN "set_checked_out"
                              ELSE "done"]
    /\ UNCHANGED <<env, is_windows, manifests, nops, checkouts, reporter>>

-----------------------------------------------------------------------------
(* ProjectsManager: the methods called after construction *)

verify_project(ps, p, expect_checkout) ==
    IF p \notin DOMAIN ps THEN "ConfigurationError"
    ELSE IF expect_checkout /\ ~ps[p].is_checked_out THEN "ConfigurationError"
    ELSE "none"

\* a method of the manager was called; ps are the projects after it
MgrCall(op, p, argr, ps, raised, calls, out, examined) ==
    /\ pc = "ready"
    /\ nops < MaxMgrOps
    /\ projects' = ps
    /\ last' = [NoCall EXCEPT !.op = op, !.proj = p, !.argr = argr,
                              !.pre = IF p \in DOMAIN projects
                                      THEN projects[p] ELSE NoInfo,
                              !.raised = raised, !.calls = calls,
                              !.out = out, !.examined = examined]
    /\ nops' = nops + 1
    /\ UNCHANGED <<env, is_windows, manifests, branch, pc, reporter>>

\* mutant: the project is marked without a call of the workspace
checkout_project_mark_only(ps, p, co, ws, rh) ==
    LET v == verify_project(ps, p, FALSE)
    IN  IF v # "none" THEN [projects |-> ps, raised |-> v, calls |-> <<>>]
        ELSE IF ps[p].is_checked_out
        THEN [projects |-> ps, raised |-> "none", calls |-> <<>>]
        ELSE LET c == set_checked_out(ps[p], ws, rh)
             IN  [projects |-> [ps EXCEPT ![p] = c.info], raised |-> c.raised,
                  calls |-> c.calls]

\* mutant: the test of is_checked_out is missing
checkout_project_again(ps, p, co, ws, rh) ==
    LET v == verify_project(ps, p, FALSE)
    IN  IF v # "none" THEN [projects |-> ps, raised |-> v, calls |-> <<>>]
        ELSE IF ~co
        THEN [projects |-> ps, raised |-> "CommandError",
              calls |-> <<"workspace._checkout_project">>]
        ELSE LET c == set_checked_out(ps[p], ws, rh)
             IN  [projects |-> [ps EXCEPT ![p] = c.info], raised |-> c.raised,
                  calls |-> <<"workspace._checkout_project">> \o c.calls]

\* checkout_project; co is whether workspace._checkout_project succeeds
checkout_project(ps, p, co, ws, rh) ==
    LET v == verify_project(ps, p, FALSE)
    IN  IF v # "none" THEN [projects |-> ps, raised |-> v, calls |-> <<>>]
        ELSE IF ps[p].is_checked_out
        THEN [projects |-> ps, raised |-> "none", calls |-> <<>>]
        ELSE IF ~co
        THEN [projects |-> ps, raised |-> "CommandError",
              calls |-> <<"workspace._checkout_project">>]
        ELSE LET c == set_checked_out(ps[p], ws, rh)
             IN  [projects |-> [ps EXCEPT ![p] = c.info], raised |-> c.raised,
                  calls |-> <<"workspace._checkout_project">> \o c.calls]

MgrCheckoutProject(p) ==
    \E co \in BOOLEAN :
    \E ws \in WsIf(co /\ p \in DOMAIN projects
                   /\ ~projects[p].is_checked_out
                   /\ ~info_is_tarball(projects[p]), WsOutcomes) :
    \E rh \in RhIf(co /\ p \in DOMAIN projects
                   /\ ~projects[p].is_checked_out
                   /\ Calls(set_checked_out(projects[p], ws, OkRh),
                            "gerrit.get_remote_hash")) :
        LET r == checkout_project(projects, p, co, ws, rh)
        IN  /\ MgrCall("checkout_project", p, NoRefSpec, r.projects,
                       r.raised, r.calls, <<>>, <<>>)
            /\ checkouts' = IF Calls(r, "workspace._checkout_project")
                            THEN Append(checkouts,
                                        [proj |-> p, ok |-> co,
                                         refspec |-> projects[p].refspec])
                            ELSE checkouts

\* mutant: the project is verified without expect_checkout
get_project_info_unverified(ps, p, expect_checkout) ==
    LET v == verify_project(ps, p, FALSE)
    IN  IF v # "none" THEN [raised |-> v, ret |-> NoInfo]
        ELSE [raised |-> "none", ret |-> ps[p]]

\* get_project_info: the exception raised, or the object returned
get_project_info(ps, p, expect_checkout) ==
    LET v == verify_project(ps, p, expect_checkout)
    IN  IF v # "none" THEN [raised |-> v, ret |-> NoInfo]
        ELSE [raised |-> "none", ret |-> ps[p]]

MgrGetProjectInfo(p, expect_checkout) ==
    /\ pc = "ready"
    /\ nops < MaxMgrOps
    /\ \E r \in {get_project_info(projects, p, expect_checkout)} :
          last' = [NoCall EXCEPT
                      !.op = IF expect_checkout THEN "get_project_info"
                             ELSE "get_project_info_no_checkout",
                      !.proj = p, !.flag = expect_checkout,
                      !.pre = IF p \in DOMAIN projects
                              THEN projects[p] ELSE NoInfo,
                      !.raised = r.raised, !.ret = r.ret]
    /\ nops' = nops + 1
    /\ UNCHANGED <<env, is_windows, manifests, projects, branch, pc,
                   checkouts, reporter>>

MgrOverrideRefspec(p, r) ==
    LET v == verify_project(projects, p, FALSE)
        o == override_refspec(projects[p], r)
    IN  /\ IF v # "none"
           THEN MgrCall("mgr.override_refspec", p, r, projects, v, <<>>,
                        <<>>, <<>>)
           ELSE MgrCall("mgr.override_refspec", p, r,
                        [projects EXCEPT ![p] = o.info], o.raised, o.calls,
                        <<>>, <<>>)
        /\ UNCHANGED checkouts

\* the order in which _projects.values() yields: insertion order
RECURSIVE DictOrder(_, _)
DictOrder(ps, i) ==
    IF i > Len(ProjectValues) THEN <<>>
    ELSE (IF ProjectValues[i] \in DOMAIN ps THEN <<ProjectValues[i]>>
          ELSE <<>>) \o DictOrder(ps, i + 1)

\* check_projects, from position i of the dictionary on.  The message of a
\* mismatch is formatted from the name project, which the function never
\* binds: formatting it raises NameError before anything is printed.
RECURSIVE CheckLoop(_, _, _, _, _)
CheckLoop(ps, order, i, examined, all_correct) ==
    IF i > Len(order)
    THEN [raised |-> IF all_correct THEN "none" ELSE "BuildError",
          out |-> <<>>, examined |-> examined]
    ELSE LET p == order[i]
         IN  IF ~ps[p].is_checked_out
             THEN CheckLoop(ps, order, i + 1, examined, all_correct)
             ELSE IF ~has_correct_hash(ps[p])
             THEN [raised |-> "NameError", out |-> <<>>,
                   examined |-> Append(examined, p)]
             ELSE CheckLoop(ps, order, i + 1, Append(examined, p), all_correct)

check_projects(ps) == CheckLoop(ps, DictOrder(ps, 1), 1, <<>>, TRUE)

\* override_refspec called on the object get_project_info handed out
MgrInfoOverrideRefspec(p, r) ==
    InfoCallN(MaxMgrOps, "override_refspec", p, None, r,
              override_refspec(projects[p], r))

MgrCheckProjects ==
    LET r == check_projects(projects)
    IN  /\ MgrCall("check_projects", NoProject, NoRefSpec, projects,
                   r.raised, <<>>, r.out, r.examined)
        /\ UNCHANGED checkouts


\* get_build_revisions, from position i of Project._values on; oc[p] holds
\* the outcomes of the commands load_missing_info runs for project p.  An
\* exception leaves the loop, with the projects before p already updated.
RECURSIVE RevLoop(_, _, _, _, _)
RevLoop(ps, i, oc, calls, listed) ==
    IF i > Len(ProjectValues)
    THEN [projects |-> ps, raised |-> "none", calls |-> calls,
          examined |-> listed]
    ELSE LET p == ProjectValues[i]
         IN  IF p \notin DOMAIN ps
             THEN RevLoop(ps, i + 1, oc, calls, listed)
             ELSE LET r == load_missing_info(ps[p], FALSE, oc[p].rh,
                                             oc[p].ws, oc[p].qc)
                      ps1 == [ps EXCEPT ![p] = r.info]
                  IN  IF r.raised # "none"
                      THEN [projects |-> ps1, raised |-> r.raised,
                            calls |-> calls \o r.calls, examined |-> <<>>]
                      ELSE RevLoop(ps1, i + 1, oc, calls \o r.calls,
                                   Append(listed, p))

get_build_revisions(ps, oc) == RevLoop(ps, 1, oc, <<>>, <<>>)

\* the outcomes load_missing_info can meet for one project
RevRh == {OkRh, [kind |-> "missing", hash |-> None],
          [kind |-> "raise", hash |-> None]}
RevWs == {OkWs, [kind |-> "none", title |-> None, hash |-> None],
          [kind |-> "raise", title |-> None, hash |-> None]}
RevQc == {OkQc, [kind |-> "raise", nlines |-> 0, change |-> NoChange]}
NoOutcome == [rh |-> NoRh, ws |-> NoWs, qc |-> OkQc]
\* a command that fails ends the call: the later ones have no outcome
RevNotCheckedOut ==
    {o \in [rh : RevRh, ws : RevWs, qc : RevQc] :
        /\ o.rh.kind = "raise" => o.ws = OkWs /\ o.qc = OkQc
        /\ o.ws.kind = "raise" => o.qc = OkQc}
RevCheckedOut == {[NoOutcome EXCEPT !.qc = qc] : qc \in RevQc}
RevOutcomes(ps, p) ==
    IF p \notin DOMAIN ps \/ info_is_tarball(ps[p]) THEN {NoOutcome}
    ELSE IF ~ps[p].is_checked_out THEN RevNotCheckedOut
    ELSE IF ps[p].head_title = None \/ ps[p].branch = None
    THEN RevCheckedOut
    ELSE {NoOutcome}

MgrGetBuildRevisions ==
    \E o1 \in RevOutcomes(projects, ProjectValues[1]) :
    \E o2 \in RevOutcomes(projects, ProjectValues[2]) :
    \E o3 \in RevOutcomes(projects, ProjectValues[3]) :
    \E r \in {get_build_revisions(projects,
                  [p \in Projects |->
                      IF p = ProjectValues[1] THEN o1
                      ELSE IF p = ProjectValues[2] THEN o2 ELSE o3])} :
        /\ MgrCall("get_build_revisions", NoProject, NoRefSpec, r.projects,
                   r.raised, r.calls, <<>>, r.examined)
        /\ UNCHANGED checkouts

-----------------------------------------------------------------------------
(* Resolver construction over the build's inputs *)

V_static2 == S_refs_changes \o <<"3","4","/","9","/","1">>
S_AUTO == <<"A","u","t","o">>

Env(rs, hs, cp, cr, gp, gb, gr) ==
    [REFSPEC |-> rs, HASH |-> hs, CHECKOUT_PROJECT |-> cp,
     CHECKOUT_REFSPEC |-> cr, GERRIT_PROJECT |-> gp, GERRIT_BRANCH |-> gb,
     GERRIT_REFSPEC |-> gr]

\* <REPO>_REFSPEC and <REPO>_HASH
InitRefspecs ==
    {rs \in [Projects -> {None, S_auto, S_AUTO, V_static, S_HEAD, V_tar,
                          V_release}] :
        /\ rs["gromacs"] # S_AUTO
        /\ rs["regressiontests"] \in {None, S_auto, V_static}
        /\ rs[RELENG] \in {None, S_AUTO, V_master}}
InitHashes == {[p \in Projects |-> h] : h \in {None, H1}}

\* GERRIT_PROJECT, GERRIT_BRANCH, GERRIT_REFSPEC: set together by the trigger
InitTriggers ==
    {<<NoProject, None, None>>}
    \cup ({"gromacs", RELENG} \X {None, B_release, B_slash}
          \X {V_static2, V_master})
    \cup {<<"gromacs", B_release, None>>}

\* CHECKOUT_PROJECT and CHECKOUT_REFSPEC
InitCheckouts ==
    {<<NoProject, None>>, <<"regressiontests", None>>,
     <<"regressiontests", V_static2>>, <<"gromacs", V_release>>}

\* the package-info.log of the tarball, where a refspec names the tarball
InitManifests(rs) ==
    IF \E p \in Projects : rs[p] = V_tar
    THEN [{V_tar} -> {[exists |-> TRUE, has_head |-> TRUE, HEAD_HASH |-> H2],
                      [exists |-> TRUE, has_head |-> FALSE,
                       HEAD_HASH |-> None]}]
    ELSE {NoManifests}

InitInit ==
    /\ \E rs \in InitRefspecs, hs \in InitHashes, t \in InitTriggers,
          c \in InitCheckouts :
          /\ env = Env(rs, hs, c[1], c[2], t[1], t[2], t[3])
          /\ manifests \in InitManifests(rs)
    /\ is_windows \in BOOLEAN
    /\ projects = EmptyProjects
    /\ branch = None
    /\ pc = "new"
    /\ last = NoCall
    /\ nops = 0
    /\ checkouts = <<>>
    /\ reporter = NoReporter

NextInit == Construct

SpecInit == InitInit /\ [][NextInit]_vars

-----------------------------------------------------------------------------
(* A resolver in use: construction, then calls of its methods and of the   *)
(* methods of the ProjectInfo objects it hands out                         *)

MgrRefspecs ==
    {rs \in [Projects -> {None, S_auto, V_static, V_tar}] :
        /\ rs["gromacs"] \in {S_auto, V_static}
        /\ rs[RELENG] \in {S_auto, V_static}}

\* refspec objects passed to the manager's override_refspec
MgrCallerRefSpecs ==
    {RefSpecNew(V_master, None, FALSE, NoTarProps).ref,
     RefSpecNew(V_tar, None, TRUE,
                [exists |-> TRUE, has_head |-> TRUE, HEAD_HASH |-> H1]).ref}

InitMgr ==
    /\ \E rs \in MgrRefspecs, cp \in {NoProject, "gromacs"} :
          env = Env(rs, [p \in Projects |-> None], cp, None,
                    NoProject, None, None)
    /\ is_windows = FALSE
    /\ manifests = [v \in {V_tar} |-> [exists |-> TRUE, has_head |-> TRUE,
                                        HEAD_HASH |-> H2]]
    /\ projects = EmptyProjects
    /\ branch = None
    /\ pc = "new"
    /\ last = NoCall
    /\ nops = 0
    /\ checkouts = <<>>
    /\ reporter = NoReporter

NextMgr ==
    \/ Construct
    \/ \E p \in Projects :
          \/ MgrCheckoutProject(p)
          \/ \E e \in BOOLEAN : MgrGetProjectInfo(p, e)
          \/ \E r \in MgrCallerRefSpecs : MgrOverrideRefspec(p, r)
          \/ \E r \in MgrCallerRefSpecs : MgrInfoOverrideRefspec(p, r)
    \/ MgrCheckProjects

SpecMgr == InitMgr /\ [][NextMgr]_vars

\* the build of one configuration, with the revisions reported as well
RevRefspecs ==
    {rs \in [Projects -> {S_auto, V_static, V_tar}] :
        /\ rs["gromacs"] = S_auto
        /\ rs["regressiontests"] \in {S_auto, V_tar}
        /\ rs[RELENG] = S_auto}

InitRev ==
    /\ \E rs \in RevRefspecs, cp \in {NoProject, "gromacs"} :
          env = Env(rs, [p \in Projects |-> None], cp, None,
                    NoProject, None, None)
    /\ is_windows = FALSE
    /\ manifests = [v \in {V_tar} |-> [exists |-> TRUE, has_head |-> TRUE,
                                        HEAD_HASH |-> H2]]
    /\ projects = EmptyProjects
    /\ branch = None
    /\ pc = "new"
    /\ last = NoCall
    /\ nops = 0
    /\ checkouts = <<>>
    /\ reporter = NoReporter

NextRev ==
    \/ Construct
    \/ \E p \in Projects :
          \/ MgrCheckoutProject(p)
          \/ \E e \in BOOLEAN : MgrGetProjectInfo(p, e)
          \/ \E r \in MgrCallerRefSpecs : MgrOverrideRefspec(p, r)
    \/ MgrCheckProjects
    \/ MgrGetBuildRevisions

SpecRev == InitRev /\ [][NextRev]_vars


-----------------------------------------------------------------------------
(* GerritIntegration on its own: the ssh query and git ls-remote, called   *)
(* with every output the commands can give                                 *)

\* the most changes a query matches
MaxMatches == 2

\* the last line gerrit query prints: the statistics row
StatsRow == [branch |-> <<"<stats>">>, title |-> <<"<stats>">>]

RECURSIVE ChangeSeqs(_)
ChangeSeqs(n) ==
    IF n = 0 THEN {<<>>}
    ELSE LET shorter == ChangeSeqs(n - 1)
         IN  shorter \cup {Append(q, c) : q \in shorter, c \in Changes}

\* what check_output gives for gerrit query: the matches and the statistics
\* row, nothing at all, or a failure of the command
QueryOutputs ==
    {[kind |-> "ok", lines |-> Append(q, StatsRow)] : q \in ChangeSeqs(MaxMatches)}
    \cup {[kind |-> "ok", lines |-> <<>>], [kind |-> "raise", lines |-> <<>>]}

\* lines 164-169: what query_change reads of the output, the number of
\* lines and lines[0]
QcOfOutput(o) ==
    [kind |-> o.kind, nlines |-> Len(o.lines),
     change |-> IF o.kind = "ok" /\ Len(o.lines) >= 1 THEN o.lines[1]
                ELSE NoChange]

GerritCall(op, flag, output, raised, calls, change, hash) ==
    /\ pc = "ready"
    /\ nops < MaxOps
    /\ last' = [NoCall EXCEPT !.op = op, !.flag = flag, !.output = output,
                              !.raised = raised, !.calls = calls,
                              !.change = change, !.hash = hash]
    /\ nops' = nops + 1
    /\ UNCHANGED <<env, is_windows, manifests, projects, branch, pc,
                   checkouts, reporter>>

GerritQueryChange ==
    \E expect_unique \in BOOLEAN, o \in QueryOutputs :
    \E r \in {query_change(is_windows, expect_unique, QcOfOutput(o))} :
        GerritCall("query_change", expect_unique, o.lines, r.raised, r.calls,
                   r.change, None)

GerritGetRemoteHash ==
    \E refspec \in CallerRefSpecs, rh \in RhOutcomes :
    \E r \in {get_remote_hash(refspec, rh)} :
        GerritCall("get_remote_hash", rh.kind = "missing", <<>>, r.raised,
                   r.calls, NoChange, r.hash)

InitGerrit ==
    /\ env = NoEnv
    /\ is_windows \in BOOLEAN
    /\ manifests = NoManifests
    /\ projects = EmptyProjects
    /\ branch = None
    /\ pc = "ready"
    /\ last = NoCall
    /\ nops = 0
    /\ checkouts = <<>>
    /\ reporter = NoReporter

NextGerrit == GerritQueryChange \/ GerritGetRemoteHash

SpecGerrit == InitGerrit /\ [][NextGerrit]_vars

-----------------------------------------------------------------------------
(* RefSpec on its own: objects built from raw strings, and their          *)
(* properties read                                                         *)

\* raw strings: the no-op token, the three prefixes, complete and cut
\* short, and strings that only look like them
RawValues ==
    {S_HEAD, V_tar, V_static, V_master, V_slash, V_other, EmptyStr,
     S_refs_changes, S_refs_changes \o <<"1","2">>,
     S_refs_heads, S_tarballs, SubSeq(S_tarballs, 1, 8),
     S_HEAD \o <<"S">>}

\* the remote_hash argument: left out, empty, a hash, the value itself
RawHashes(value) == {None, EmptyStr, H1, value}

\* the properties of a RefSpec object, read after construction
RefSpecProps(raised, r) ==
    IF raised # "none"
    THEN NoCall.props
    ELSE [is_no_op |-> is_no_op(r), is_tarball |-> is_tarball(r),
          is_static |-> is_static(r), fetch |-> fetch(r),
          checkout |-> checkout(r)]

RefSpecCreate ==
    /\ pc = "ready"
    /\ nops < MaxOps
    /\ \E value \in RawValues, executor \in BOOLEAN :
       \E remote_hash \in RawHashes(value) :
       \E manifest \in (IF is_tarball_refspec(value) /\ executor
                         THEN Manifests ELSE {NoTarProps}) :
       \E r \in {RefSpecNew(value, remote_hash, executor, manifest)} :
          last' = [NoCall EXCEPT !.op = "RefSpec", !.argb = value,
                                 !.hash = remote_hash, !.flag = executor,
                                 !.argr = r.ref, !.raised = r.raised,
                                 !.props = RefSpecProps(r.raised, r.ref)]
    /\ nops' = nops + 1
    /\ UNCHANGED <<env, is_windows, manifests, projects, branch, pc,
                   checkouts, reporter>>

InitRefSpec ==
    /\ env = NoEnv
    /\ is_windows = FALSE
    /\ manifests = NoManifests
    /\ projects = EmptyProjects
    /\ branch = None
    /\ pc = "ready"
    /\ last = NoCall
    /\ nops = 0
    /\ checkouts = <<>>
    /\ reporter = NoReporter

NextRefSpec == RefSpecCreate

SpecRefSpec == InitRefSpec /\ [][NextRefSpec]_vars

-----------------------------------------------------------------------------
(* The display label: one ProjectInfo, its branch set by set_branch, then  *)
(* to_dict                                                                 *)

\* length of the suffixes tried after each prefix
MaxSuffix == 2

LabelChars == {"2", "-"}

RECURSIVE SeqsUpTo(_, _)
SeqsUpTo(S, n) ==
    IF n = 0 THEN {<<>>}
    ELSE LET shorter == SeqsUpTo(S, n - 1)
         IN  shorter \cup {Append(q, c) : q \in shorter, c \in S}

LabelPrefixes ==
    {<<>>, S_release, SubSeq(S_release, 1, 7), <<"R">> \o Tail(S_release),
     <<"x">> \o S_release}

LabelBranches ==
    {pre \o suf : pre \in LabelPrefixes, suf \in SeqsUpTo(LabelChars, MaxSuffix)}
    \cup {S_master, S_release \o <<"2","0","2","1">>}

InitLabel ==
    /\ env = NoEnv
    /\ is_windows = FALSE
    /\ manifests = NoManifests
    /\ projects = [p \in {"gromacs"} |-> ProjectInfoNew(p, NoRefSpec)]
    /\ branch = None
    /\ pc = "ready"
    /\ last = NoCall
    /\ nops = 0
    /\ checkouts = <<>>
    /\ reporter = NoReporter

NextLabel ==
    \/ \E b \in LabelBranches : InfoSetBranch("gromacs", b)
    \/ InfoToDict("gromacs")

SpecLabel == InitLabel /\ [][NextLabel]_vars


-----------------------------------------------------------------------------
(* StatusReporter: mark_failed, mark_unstable and the end of the with      *)
(* block                                                                   *)

\* number of mark_failed and mark_unstable calls in one behaviour
MaxMarks == 2

S_newline == <<"\n">>
S_config_error ==
    <<"J","e","n","k","i","n","s"," ","c","o","n","f","i","g","u","r","a",
      "t","i","o","n"," ","e","r","r","o","r",":"," ">>

\* '\n'.join(lines)
RECURSIVE JoinLines(_)
JoinLines(lines) ==
    IF lines = <<>> THEN EmptyStr
    ELSE IF Len(lines) = 1 THEN lines[1]
    ELSE lines[1] \o S_newline \o JoinLines(Tail(lines))

mark_failed(r, reason) ==
    [r EXCEPT !.failed = TRUE,
              !.unsuccessful_reason = Append(@, reason),
              !.marks = Append(@, "mark_failed")]

\* details is None or a list of strings
mark_unstable(r, reason, details) ==
    [r EXCEPT !.unsuccessful_reason = IF details = None THEN Append(@, reason)
                                      ELSE @ \o details,
              !.marks = Append(@, "mark_unstable")]

\* mutant: a failed build is reported as failed even when it was aborted
report_failed_first(r, write_ok) ==
    LET result == IF r.failed THEN "FAILURE"
                  ELSE IF r.aborted THEN "ABORTED"
                  ELSE IF r.unsuccessful_reason # <<>> THEN "UNSTABLE"
                  ELSE "SUCCESS"
        reason == IF ~r.aborted /\ r.unsuccessful_reason # <<>>
                  THEN JoinLines(r.unsuccessful_reason) ELSE None
        contents == IF r.json
                    THEN [kind |-> "json", result |-> result, text |-> reason]
                    ELSE IF Truthy(reason)
                    THEN [kind |-> "text", result |-> "none",
                          text |-> reason \o S_newline]
                    ELSE NoContents
    IN  [result |-> result, reason |-> reason,
         contents |-> IF write_ok THEN contents ELSE NoContents,
         raised |-> IF contents # NoContents /\ ~write_ok THEN "IOError"
                    ELSE "none"]

\* _report: the result, the reason, and what is written to the status
\* file; write_ok is whether the executor can write the file.  The final
\* assertion is in the raised field.
report(r, write_ok) ==
    LET result == IF r.aborted THEN "ABORTED"
                  ELSE IF r.failed THEN "FAILURE"
                  ELSE IF r.unsuccessful_reason # <<>> THEN "UNSTABLE"
                  ELSE "SUCCESS"
        reason == IF ~r.aborted /\ r.unsuccessful_reason # <<>>
                  THEN JoinLines(r.unsuccessful_reason) ELSE None
        contents == IF r.json
                    THEN [kind |-> "json", result |-> result, text |-> reason]
                    ELSE IF Truthy(reason)
                    THEN [kind |-> "text", result |-> "none",
                          text |-> reason \o S_newline]
                    ELSE NoContents
    IN  [result |-> result, reason |-> reason,
         contents |-> IF write_ok THEN contents ELSE NoContents,
         raised |-> IF contents # NoContents /\ ~write_ok THEN "IOError"
                    ELSE IF r.failed /\ r.unsuccessful_reason = <<>>
                    THEN "AssertionError"
                    ELSE "none"]

\* the exceptions that can end the with block; "none" is a normal end
HandledErrors == {"AbortError", "ConfigurationError", "BuildError"}
ExcTypes == {"none", "KeyError"} \cup HandledErrors
ExcMessage == <<"m","s","g">>
TracebackLines == <<<<"T","r","a","c","e","b","a","c","k">>,
                    <<"K","e","y","E","r","r","o","r">>>>

\* __exit__ up to the report: the exception is turned into state
exit_classify(r, exc_type) ==
    IF exc_type = "AbortError" THEN [r EXCEPT !.aborted = TRUE]
    ELSE IF exc_type = "ConfigurationError"
    THEN [mark_failed(r, S_config_error \o ExcMessage) EXCEPT !.marks = r.marks]
    ELSE IF exc_type = "BuildError"
    THEN [mark_failed(r, ExcMessage) EXCEPT !.marks = r.marks]
    ELSE IF exc_type = "none" THEN r
    ELSE [r EXCEPT !.unsuccessful_reason = @ \o TracebackLines]

\* __exit__: returned is what the with statement gets back ("True"
\* suppresses the exception, "False" lets it go on), unless __exit__ itself
\* raised or ended the process through executor.exit
exit(r, exc_type, returncode, write_ok) ==
    LET r1 == exit_classify(r, exc_type)
        rep == report(r1, write_ok)
        done == [r1 EXCEPT !.phase = "exited"]
        out == [exc |-> exc_type, result |-> rep.result,
                reason |-> rep.reason, contents |-> rep.contents,
                returned |-> "none", raised |-> "none", exit_code |-> 0]
    IN  IF exc_type \notin HandledErrors \cup {"none"}
        THEN [done EXCEPT !.exit = [out EXCEPT !.returned = "False"]]
        ELSE IF rep.raised # "none"
        THEN [done EXCEPT !.exit = [out EXCEPT !.raised = rep.raised]]
        ELSE IF (r1.aborted \/ r1.failed) /\ r1.propagate_failure
        THEN [done EXCEPT !.exit =
                 [out EXCEPT !.exit_code = IF exc_type = "AbortError"
                                           THEN returncode ELSE 1]]
        ELSE [done EXCEPT !.exit = [out EXCEPT !.returned = "True"]]

MarkReasons == {<<"r","1">>, <<"r","2">>, EmptyStr}
MarkDetails == {None, <<>>, <<<<"d","1">>, <<"d","2">>>>}
ReturnCodes == {2, 143}

ReporterStep(r) ==
    /\ reporter.phase = "open"
    /\ reporter' = r
    /\ UNCHANGED <<env, is_windows, manifests, projects, branch, pc, last,
                   checkouts>>

MarkFailed ==
    /\ nops < MaxMarks
    /\ \E reason \in MarkReasons : ReporterStep(mark_failed(reporter, reason))
    /\ nops' = nops + 1

MarkUnstable ==
    /\ nops < MaxMarks
    /\ \E reason \in MarkReasons, details \in MarkDetails :
          ReporterStep(mark_unstable(reporter, reason, details))
    /\ nops' = nops + 1

Exit ==
    /\ \E exc_type \in ExcTypes :
       \E returncode \in (IF exc_type = "AbortError" THEN ReturnCodes
                          ELSE {1}) :
       \E write_ok \in BOOLEAN :
          ReporterStep(exit(reporter, exc_type, returncode, write_ok))
    /\ UNCHANGED nops

InitReporter ==
    /\ env = NoEnv
    /\ is_windows = FALSE
    /\ manifests = NoManifests
    /\ projects = EmptyProjects
    /\ branch = None
    /\ pc = "ready"
    /\ last = NoCall
    /\ nops = 0
    /\ checkouts = <<>>
    /\ \E json \in BOOLEAN, propagate \in BOOLEAN :
          reporter = StatusReporterNew(json, propagate)

NextReporter == MarkFailed \/ MarkUnstable \/ Exit

SpecReporter == InitReporter /\ [][NextReporter]_vars

-----------------------------------------------------------------------------
(* Properties *)

IsOverride(c) == c.op \in {"override_refspec", "mgr.override_refspec"}

\* C1: override_refspec (called on the ProjectInfo or through the manager)
\* on a checked-out project raises the assertion and leaves the object as it
\* was; on a registered project that is not checked out it returns and
\* installs the refspec.  And no step ends with a checked-out project whose
\* refspec differs from the one it had before the step: the refspec of a
\* checked-out project is the one it was checked out with.
C1_OverrideState ==
    (IsOverride(last) /\ last.proj \in DOMAIN projects) =>
        IF last.pre.is_checked_out
        THEN /\ last.raised = "AssertionError"
             /\ projects[last.proj] = last.pre
        ELSE /\ last.raised = "none"
             /\ projects[last.proj].refspec = last.argr
C1_RefspecKept ==
    \A p \in DOMAIN projects :
        (p \in DOMAIN projects' /\ projects'[p].is_checked_out)
            => projects'[p].refspec = projects[p].refspec
C1_OverrideAfterCheckout == []C1_OverrideState /\ [][C1_RefspecKept]_vars

\* C1 witness: the manager's override_refspec was called on a checked-out
\* project and raised
C1_Witness ==
    /\ last.op = "mgr.override_refspec"
    /\ last.pre.is_checked_out
    /\ last.raised = "AssertionError"
    /\ last.argr # last.pre.refspec

\* C2: of two consecutive set_branch calls with different names on an object
\* whose branch was unset before the first, the first name stays, the second
\* call changes nothing, and neither raises.
C2_Step ==
    (/\ last.op = "set_branch"
     /\ last.pre.branch = None
     /\ last'.op = "set_branch"
     /\ nops' = nops + 1
     /\ last'.proj = last.proj
     /\ last'.argb # last.argb)
    => /\ projects'[last.proj].branch = last.argb
       /\ projects' = projects
       /\ last.raised = "none"
       /\ last'.raised = "none"
C2_FirstWriteWins == [][C2_Step]_vars

\* C2 witness: the second of two calls has run.  The object has no refspec,
\* so it was built with branch unset and only set_branch can have set it.
C2_Witness ==
    /\ nops = 2
    /\ last.op = "set_branch"
    /\ last.pre.refspec = NoRefSpec
    /\ ~last.pre.is_checked_out
    /\ last.pre.branch # None
    /\ last.argb # last.pre.branch
    /\ projects[last.proj].branch = last.pre.branch

\* C3: once the branch of a project is set, no call changes it.
C3_BranchStep ==
    \A p \in DOMAIN projects :
        (p \in DOMAIN projects' /\ projects[p].branch # None)
            => projects'[p].branch = projects[p].branch
C3_BranchNeverChanges == [][C3_BranchStep]_vars

Mismatched(ps) ==
    {p \in DOMAIN ps : ps[p].is_checked_out /\ ~has_correct_hash(ps[p])}
CheckedOut(ps) == {p \in DOMAIN ps : ps[p].is_checked_out}
Range(q) == {q[i] : i \in 1..Len(q)}

\* C4: check_projects raises BuildError exactly when a checked-out project
\* has head_hash different from remote_hash, reports exactly those projects,
\* looks at checked-out projects only, and returns when all of them match.
C4_CheckAllAggregate ==
    last.op = "check_projects" =>
        /\ (last.raised = "BuildError") <=> (Mismatched(projects) # {})
        /\ (Mismatched(projects) = {}) => (last.raised = "none")
        /\ Range(last.out) = Mismatched(projects)
        /\ Range(last.examined) \subseteq CheckedOut(projects)

\* C5: with two or more mismatching checked-out projects, check_projects
\* looks at every checked-out project and reports every mismatch before it
\* raises, and what it raises is the one BuildError at the end.
C5_CheckAllNotFailFast ==
    (last.op = "check_projects" /\ Cardinality(Mismatched(projects)) >= 2) =>
        /\ Range(last.examined) = CheckedOut(projects)
        /\ Mismatched(projects) \subseteq Range(last.out)
        /\ last.raised = "BuildError"

\* C6: set_checked_out on a project whose refspec is a tarball, given at
\* construction or by override_refspec, returns with has_correct_hash true
\* and without a call to the workspace or to Gerrit.
C6_TarballCorrectHash ==
    (last.op = "set_checked_out" /\ info_is_tarball(last.pre)) =>
        /\ last.raised = "none"
        /\ projects[last.proj].is_checked_out
        /\ has_correct_hash(projects[last.proj])
        /\ last.calls = <<>>

\* C6 witness: the tarball was installed by override_refspec on an object
\* built without a refspec, so no hash came from the package
C6_Witness ==
    /\ last.op = "set_checked_out"
    /\ info_is_tarball(last.pre)
    /\ last.pre.head_title # S_From_tarball
    /\ projects[last.proj].is_checked_out

\* C10: the label is unset when the branch is unset, the branch without its
\* first 8 characters when the branch starts with release-, and the branch
\* itself otherwise.
C10_Label ==
    last.op = "to_dict" =>
        LET b == last.pre.branch
            l == last.label
        IN  /\ b = None => l = None
            /\ (b # None /\ Len(b) >= 8 /\ SubSeq(b, 1, 8) = S_release)
                   => (Len(l) = Len(b) - 8 /\ b = S_release \o l)
            /\ (b # None /\ ~(Len(b) >= 8 /\ SubSeq(b, 1, 8) = S_release))
                   => l = b
            /\ b = S_release \o <<"2","0","2","1">> => l = <<"2","0","2","1">>
            /\ b = S_master => l = S_master

\* C10 witness: the label of a release branch was computed
C10_Witness ==
    /\ last.op = "to_dict"
    /\ last.pre.branch = S_release \o <<"2","0","2","1">>
    /\ last.label = <<"2","0","2","1">>


\* the literal value auto of <REPO>_REFSPEC, in any case of letters
IsAutoValue(v) == v # None /\ Lower(v) = S_auto

RefOf(value, hash) == RefSpecNew(value, hash, TRUE, NoTarProps).ref

\* the case of C7: no trigger, no extra checkout, the one project A that is
\* not releng has a refs/changes/ refspec with a hash, every other project
\* is auto or not registered, and construction has completed
C7_Case(A) ==
    /\ last.op = "init"
    /\ pc = "ready"
    /\ env.GERRIT_PROJECT = NoProject
    /\ env.CHECKOUT_PROJECT = NoProject
    /\ A # RELENG
    /\ env.REFSPEC[A] # None
    /\ StartsWith(env.REFSPEC[A], S_refs_changes)
    /\ Truthy(env.HASH[A])
    /\ \A q \in Projects \ {A} :
          env.REFSPEC[q] = None \/ IsAutoValue(env.REFSPEC[q])

\* C7 as claimed: in that case every other project gets refs/heads/master
\* and A keeps its refspec.
C7_OthersGetDefaultBranch ==
    \A A \in Projects :
        C7_Case(A) =>
            /\ \A q \in DOMAIN projects \ {A} :
                  projects[q].refspec = RefOf(V_master, None)
            /\ projects[A].refspec = RefOf(env.REFSPEC[A], env.HASH[A])

\* C7 amended: in that case every other project gets refs/heads/<g>, where g
\* is the branch of A after the lookup of A's change in Gerrit, or master
\* when the lookup gave A no branch; g is the global branch; A keeps its
\* refspec.
C7_OthersGetBranchOfA ==
    \A A \in Projects :
        C7_Case(A) =>
            LET g == IF Truthy(projects[A].branch) THEN projects[A].branch
                     ELSE S_master
            IN  /\ \A q \in DOMAIN projects \ {A} :
                      projects[q].refspec = RefOf(S_refs_heads \o g, None)
                /\ branch = g
                /\ projects[A].refspec = RefOf(env.REFSPEC[A], env.HASH[A])

\* C7 witness: Gerrit gave the branch release-21 for A's change and releng
\* got refs/heads/release-21
C7_Witness ==
    \E A \in Projects :
        /\ C7_Case(A)
        /\ projects[A].branch = B_release
        /\ projects[RELENG].refspec.value = V_release

\* C8: when the trigger names the registered project A, not releng, on branch
\* b and A's refspec input is auto, then after construction A's branch is b,
\* A's refspec is the trigger's, the global branch is b and every project
\* that lacked a refspec has refs/heads/b.
C8_TriggerBranch ==
    \A A \in Projects \ {RELENG} :
        (/\ last.op = "init"
         /\ pc = "ready"
         /\ env.GERRIT_PROJECT = A
         /\ IsAutoValue(env.REFSPEC[A])
         /\ Truthy(env.GERRIT_BRANCH))
        => /\ projects[A].branch = env.GERRIT_BRANCH
           /\ projects[A].refspec.value = env.GERRIT_REFSPEC
           /\ branch = env.GERRIT_BRANCH
           /\ \A q \in Missing(InitBeforeResolve(env, manifests).projects) :
                 projects[q].refspec.value = S_refs_heads \o env.GERRIT_BRANCH

\* the case of C9: the fallback pass is reached with a project lacking a
\* refspec, no global branch from the trigger, and no known project that
\* has or gets a branch
C9_Case ==
    /\ last.op = "init"
    /\ LET m3 == InitBeforeResolve(env, manifests)
       IN  /\ m3.raised = "none"
           /\ Missing(m3.projects) # {}
           /\ ~Truthy(m3.branch)
           /\ \A k \in Known(m3.projects) : ~Truthy(projects[k].branch)

C9_DefaultApplied ==
    /\ branch = S_master
    /\ \A p \in Missing(InitBeforeResolve(env, manifests).projects) :
          projects[p].refspec = RefOf(V_master, None)

\* C9 as claimed: in that case the global branch is master and every project
\* that lacked a refspec has refs/heads/master.
C9_DefaultBranch == C9_Case => C9_DefaultApplied

\* C9 amended: in that case, when the fallback pass does not abort (on two
\* or more known projects, or on a failing lookup), the global branch is
\* master and every project that lacked a refspec has refs/heads/master.
C9_DefaultBranchUnlessAborted ==
    (C9_Case /\ last.stage \in {"set_checked_out", "done"})
        => C9_DefaultApplied

\* C9 witness: a known project without a branch (refspec HEAD), and master
\* applied
C9_Witness ==
    /\ C9_Case
    /\ last.stage = "done"
    /\ Known(InitBeforeResolve(env, manifests).projects) # {}
    /\ branch = S_master

-----------------------------------------------------------------------------
(* GerritIntegration.query_change *)

\* the number of changes the output of the last query lists
Matches == IF last.output = <<>> THEN 0 ELSE Len(last.output) - 1

QueryRan == last.op = "query_change" /\ last.raised # "CommandError"

QueryContract ==
    /\ Matches = 0 => last.raised = "BuildError"
    /\ Matches > 1 /\ last.flag => last.raised = "BuildError"
    /\ Matches >= 1 /\ ~(Matches > 1 /\ last.flag) =>
          /\ last.raised = "none"
          /\ last.change = last.output[1]

\* C11 (as stated): query_change raises a lookup error for zero matches
\* and for more than one match with expect_unique, and in every other case
\* returns the first matching change.
C11_QueryChange == QueryRan => QueryContract

\* C11 (amended): the above holds everywhere but on Windows, where the
\* query is not run and no change is returned.
C11_QueryChangeOffWindows ==
    /\ QueryRan /\ ~is_windows => QueryContract
    /\ QueryRan /\ is_windows =>
          last.raised = "none" /\ last.change = NoChange /\ last.calls = <<>>

\* two different matches, uniqueness not required: the first is returned
C11_Witness ==
    /\ QueryRan /\ ~is_windows /\ ~last.flag
    /\ Matches = 2
    /\ last.output[1] # last.output[2]
    /\ last.change = last.output[1]

-----------------------------------------------------------------------------
(* ProjectInfo: a failing collaborator call *)

\* the last call was one of the three methods that call collaborators, and
\* a collaborator's command failed or its lookup raised
CollaboratorFailed ==
    /\ last.op \in {"set_checked_out", "ensure_branch_loaded",
                    "load_missing_info"}
    /\ last.raised \in {"CommandError", "BuildError"}

\* C12: when a collaborator call fails inside set_checked_out,
\* ensure_branch_loaded or load_missing_info, every field of the project is
\* as it was before the call.
C12_ErrorLeavesStateUntouched ==
    CollaboratorFailed => projects[last.proj] = last.pre

-----------------------------------------------------------------------------
(* ProjectsManager.checkout_project *)

IsCheckout == last.op = "checkout_project"

\* the positions of the calls of workspace._checkout_project for p
CheckoutsOf(p) == {i \in DOMAIN checkouts : checkouts[i].proj = p}

\* a call on a project that is already checked out returns at once
C13_AlreadyCheckedOut ==
    IsCheckout /\ last.pre.is_checked_out =>
        /\ projects[last.proj] = last.pre
        /\ last.raised = "none"
        /\ last.calls = <<>>

\* the workspace is asked only for projects that are not checked out, and
\* a call on a checked-out project changes nothing at all
C13_Step ==
    /\ checkouts' # checkouts =>
          /\ last'.proj \in DOMAIN projects
          /\ ~projects[last'.proj].is_checked_out
    /\ last'.op = "checkout_project" /\ last'.pre.is_checked_out =>
          projects' = projects /\ checkouts' = checkouts

C13_OnceState ==
    /\ \A p \in Projects : Cardinality(CheckoutsOf(p)) <= 1
    /\ C13_AlreadyCheckedOut
    /\ IsCheckout /\ last.pre # NoInfo /\ ~last.pre.is_checked_out =>
          projects[last.proj].is_checked_out

\* C13 (as stated): over any sequence of checkout_project calls the
\* workspace checkout runs at most once per project and never for a
\* project that is checked out; a call on a checked-out project returns at
\* once and changes nothing, and a call on a known project that is not
\* checked out leaves it checked out.
C13_CheckoutIdempotent == []C13_OnceState /\ [][C13_Step]_vars

C13_OnceSucceededState ==
    /\ \A i, j \in DOMAIN checkouts :
          i < j /\ checkouts[i].proj = checkouts[j].proj => ~checkouts[i].ok
    /\ C13_AlreadyCheckedOut
    /\ IsCheckout /\ last.pre # NoInfo /\ ~last.pre.is_checked_out =>
          /\ checkouts # <<>>
          /\ checkouts[Len(checkouts)].proj = last.proj
          /\ checkouts[Len(checkouts)].ok =>
                projects[last.proj].is_checked_out
          /\ ~checkouts[Len(checkouts)].ok =>
                projects[last.proj] = last.pre

\* C13 (amended): the workspace checkout never runs for a project that is
\* checked out and never again for a project after it has succeeded; a
\* failed workspace checkout leaves the project as it was (a later call
\* runs it again), and a successful one leaves the project checked out.
C13_CheckoutIdempotentOnSuccess ==
    []C13_OnceSucceededState /\ [][C13_Step]_vars

\* a second call for a project the first call checked out
C13_Witness ==
    /\ IsCheckout /\ nops = 2
    /\ last.pre.is_checked_out
    /\ last.proj # RELENG
    /\ CheckoutsOf(last.proj) # {}
    /\ \A i \in CheckoutsOf(last.proj) : checkouts[i].ok

-----------------------------------------------------------------------------
(* ProjectsManager.get_project_info *)

IsGetInfo == last.op \in {"get_project_info", "get_project_info_no_checkout"}

C14_GetInfoState ==
    IsGetInfo =>
        IF last.proj \notin DOMAIN projects
        THEN last.raised = "ConfigurationError"
        ELSE IF last.flag /\ ~projects[last.proj].is_checked_out
        THEN last.raised = "ConfigurationError"
        ELSE last.raised = "none" /\ last.ret = projects[last.proj]

C14_GetInfoStep ==
    last'.op \in {"get_project_info", "get_project_info_no_checkout"} =>
        projects' = projects /\ branch' = branch /\ checkouts' = checkouts

\* C14: get_project_info raises ConfigurationError for a project that is
\* not registered, and for one that is not checked out when expect_checkout
\* is set; otherwise it returns the project's ProjectInfo; it changes
\* nothing in any case.
C14_GetInfo == []C14_GetInfoState /\ [][C14_GetInfoStep]_vars

\* a registered project asked for before its checkout
C14_Witness ==
    /\ last.op = "get_project_info" /\ last.flag
    /\ last.proj \in DOMAIN projects
    /\ ~projects[last.proj].is_checked_out
    /\ last.raised = "ConfigurationError"

-----------------------------------------------------------------------------
(* ProjectsManager._init_projects: the initial projects *)

\* C15: whenever construction completes, releng is registered and checked
\* out, whatever the trigger, the refspecs given and the extra checkout.
C15_RelengCheckedOut ==
    pc = "ready" =>
        RELENG \in DOMAIN projects /\ projects[RELENG].is_checked_out

\* construction completed for a build triggered by a change of another
\* project, with an extra checkout of another project
C15_Witness ==
    /\ pc = "ready"
    /\ env.GERRIT_PROJECT \notin {NoProject, RELENG}
    /\ env.CHECKOUT_PROJECT \notin {NoProject, RELENG}
    /\ projects[RELENG].is_checked_out

-----------------------------------------------------------------------------
(* GerritIntegration.get_remote_hash: a ref that does not exist *)

\* C16: a ref missing at the remote makes get_remote_hash raise, so that
\* what a missing ref yields is never stored as the head hash or the
\* remote hash of a project.
C16_MissingRefNeverStored ==
    \A p \in DOMAIN projects :
        /\ projects[p].remote_hash # BuildErrorObj
        /\ projects[p].head_hash # BuildErrorObj

-----------------------------------------------------------------------------
(* RefSpec: the kind of a refspec and what is parsed from it *)

Built == last.op = "RefSpec" /\ last.raised = "none"

\* none of is_no_op, is_tarball, is_static: a branch refspec
IsBranchKind ==
    ~last.props.is_no_op /\ ~last.props.is_tarball /\ ~last.props.is_static

Classified ==
    \* at most one of the three kinds, each decided by the raw string
    /\ last.props.is_no_op <=> last.argb = S_HEAD
    /\ last.props.is_tarball <=> StartsWith(last.argb, S_tarballs)
    /\ last.props.is_static <=> StartsWith(last.argb, S_refs_changes)
    /\ ~(last.props.is_no_op /\ last.props.is_tarball)
    /\ ~(last.props.is_no_op /\ last.props.is_static)
    /\ ~(last.props.is_tarball /\ last.props.is_static)
    \* what is parsed
    /\ last.argr.change_number # None <=> last.props.is_static
    /\ last.argr.branch # None <=> StartsWith(last.argb, S_refs_heads)
    /\ last.argr.tar_props # NoTarProps <=> last.props.is_tarball
    /\ last.argr.branch # None => IsBranchKind

\* C17 (as stated): every raw string gives a refspec of exactly one kind,
\* with a change number exactly for refs/changes/ values, a branch exactly
\* for refs/heads/ values and tarball properties exactly for tarballs.
C17_ClassificationTotal ==
    last.op = "RefSpec" => last.raised = "none" /\ Classified

\* C17 (amended): the same for every raw string from which a RefSpec can
\* be built; building fails for a tarball without executor or without a
\* readable package-info.log holding HEAD_HASH, and for a refs/changes/
\* value with fewer than four parts.
C17_ClassificationWhenBuilt ==
    /\ Built => Classified
    /\ last.op = "RefSpec" /\ last.raised # "none" =>
          \/ StartsWith(last.argb, S_tarballs)
          \/ /\ StartsWith(last.argb, S_refs_changes)
             /\ Len(Split(last.argb, "/")) < 4

\* a refs/heads/ value: a branch refspec with its branch parsed
C17_Witness ==
    /\ Built
    /\ last.argb = V_slash
    /\ IsBranchKind
    /\ last.argr.branch = <<"a">>

-----------------------------------------------------------------------------
(* RefSpec.fetch and RefSpec.checkout *)

\* what checkout gives when target is the hash the refspec carries
CheckoutFor(target) ==
    IF Truthy(target) /\ target # last.argb THEN target ELSE S_FETCH_HEAD

\* C18 (as stated): fetch is the raw string; checkout is the hash passed
\* in when there is one and it differs from the raw string, and
\* FETCH_HEAD otherwise.
C18_FetchAndCheckout ==
    Built =>
        /\ last.props.fetch = last.argb
        /\ last.props.checkout = CheckoutFor(last.hash)

\* C18 (amended): that holds for every refspec but a tarball; for a
\* tarball the hash passed in is ignored, and checkout is the HEAD_HASH of
\* the package-info.log (FETCH_HEAD when that equals the raw string).
C18_FetchAndCheckoutByKind ==
    Built =>
        /\ last.props.fetch = last.argb
        /\ ~last.props.is_tarball =>
              last.props.checkout = CheckoutFor(last.hash)
        /\ last.props.is_tarball =>
              last.props.checkout = CheckoutFor(last.argr.tar_props.HEAD_HASH)

\* a hash passed in that equals the raw string
C18_Witness ==
    /\ Built /\ ~last.props.is_tarball
    /\ last.hash = last.argb
    /\ last.props.checkout = S_FETCH_HEAD
    /\ last.props.fetch = V_static

-----------------------------------------------------------------------------
(* ProjectsManager._init_projects: the triggering change (lines 335-344) *)

\* the refspec object get_triggering_refspec returns
TriggerRefSpec == RefSpecNew(env.GERRIT_REFSPEC, None, FALSE, NoTarProps).ref

\* the constructor ran and reached line 335 with the triggering project
\* registered
C19_Case ==
    /\ last.op = "init"
    /\ InitBeforeTrigger(env, manifests).raised = "none"
    /\ env.GERRIT_PROJECT \in DOMAIN InitBeforeTrigger(env, manifests).projects

\* C19: after the trigger is applied the triggering project has the
\* trigger's refspec in place of the one given for it, unless that is a
\* tarball, which stays, GERRIT_REFSPEC not being read; the refspecs of
\* all other projects are as they were.
C19_TriggerStep ==
    C19_Case =>
        LET b == InitBeforeTrigger(env, manifests)
            t == InitAfterTrigger(env, manifests)
            gp == env.GERRIT_PROJECT
        IN  /\ info_is_tarball(b.projects[gp]) =>
                  /\ t.raised = "none"
                  /\ t.projects[gp].refspec = b.projects[gp].refspec
                  /\ pc = "ready" /\ env.CHECKOUT_PROJECT # gp =>
                        projects[gp].refspec = b.projects[gp].refspec
            /\ ~info_is_tarball(b.projects[gp]) /\ t.raised = "none" =>
                  /\ t.projects[gp].refspec = TriggerRefSpec
                  /\ pc = "ready" /\ env.CHECKOUT_PROJECT # gp =>
                        projects[gp].refspec = TriggerRefSpec
            /\ \A q \in DOMAIN b.projects \ {gp} :
                  /\ q \in DOMAIN t.projects
                  /\ t.projects[q] = b.projects[q]

\* a trigger on gromacs, which was given another refs/changes/ refspec,
\* while regressiontests keeps the one given for it
C19_Witness ==
    /\ C19_Case /\ pc = "ready"
    /\ env.GERRIT_PROJECT = "gromacs"
    /\ env.REFSPEC["gromacs"] = V_static
    /\ env.GERRIT_REFSPEC = V_static2
    /\ projects["gromacs"].refspec.value = V_static2
    /\ env.REFSPEC["regressiontests"] = V_static
    /\ env.CHECKOUT_REFSPEC = None
    /\ projects["regressiontests"].refspec.value = V_static

\* a trigger on gromacs, which is built from a tarball; no GERRIT_REFSPEC
C19_WitnessTarball ==
    /\ C19_Case /\ pc = "ready"
    /\ env.GERRIT_PROJECT = "gromacs"
    /\ env.REFSPEC["gromacs"] = V_tar
    /\ env.GERRIT_REFSPEC = None
    /\ projects["gromacs"].refspec.value = V_tar

-----------------------------------------------------------------------------
(* ProjectsManager._init_projects: the trigger's branch and the global     *)
(* branch                                                                  *)

\* construction completed for a build triggered by a change of the
\* registered project gp, on a branch
C20_Case(gp) ==
    /\ last.op = "init"
    /\ pc = "ready"
    /\ env.GERRIT_PROJECT = gp
    /\ Truthy(env.GERRIT_BRANCH)

\* the global branch after a trigger on releng: not the trigger's; taken
\* by the pass over the missing refspecs from the one known project, or
\* master
C20_GlobalBranchOnReleng ==
    C20_Case(RELENG) =>
        /\ InitAfterTrigger(env, manifests).branch = None
        /\ LET m3 == InitBeforeResolve(env, manifests)
               known == Known(m3.projects)
           IN  IF Missing(m3.projects) = {} THEN branch = None
               ELSE IF known = {} THEN branch = S_master
               ELSE \E k \in known :
                       /\ known = {k}
                       /\ branch = IF Truthy(projects[k].branch)
                                   THEN projects[k].branch ELSE S_master

\* the global branch after a trigger on another project
C20_GlobalBranchOnOther ==
    \A gp \in Projects \ {RELENG} :
        C20_Case(gp) => branch = env.GERRIT_BRANCH

\* the trigger's branch is on releng, which had none, and on no other
\* project
C20_RecordedOnReleng ==
    C20_Case(RELENG) /\ IsAutoValue(env.REFSPEC[RELENG]) =>
        /\ projects[RELENG].branch = env.GERRIT_BRANCH
        /\ \A q \in DOMAIN projects \ {RELENG} :
              InitAfterTrigger(env, manifests).projects[q].branch
                  = InitBeforeTrigger(env, manifests).projects[q].branch

\* C20: a trigger on releng puts the trigger's branch on releng only, and
\* the global branch then comes from the one other project with a refspec
\* or is master; a trigger on another registered project makes the
\* trigger's branch the global branch.
C20_TriggerBranchScope ==
    /\ C20_RecordedOnReleng
    /\ C20_GlobalBranchOnReleng
    /\ C20_GlobalBranchOnOther

-----------------------------------------------------------------------------
(* ProjectsManager._init_projects: the extra checkout (lines 345-350) *)

\* construction completed with CHECKOUT_PROJECT and CHECKOUT_REFSPEC set
C21_Case ==
    /\ last.op = "init"
    /\ pc = "ready"
    /\ env.CHECKOUT_PROJECT # NoProject
    /\ env.CHECKOUT_REFSPEC # None

\* C21: the project of an extra checkout with a refspec ends with that
\* refspec, paired with the project's _HASH value, in place of the refspec
\* given for it and of the trigger's; it is checked out, and with releng
\* it is all that is checked out.
C21_ExtraCheckout ==
    C21_Case =>
        LET cp == env.CHECKOUT_PROJECT
        IN  /\ cp \in DOMAIN projects
            /\ projects[cp].refspec
                  = RefSpecNew(env.CHECKOUT_REFSPEC, env.HASH[cp], FALSE,
                               NoTarProps).ref
            /\ projects[cp].is_checked_out
            /\ {p \in DOMAIN projects : projects[p].is_checked_out}
                  = {RELENG, cp}

\* the extra checkout is of the triggering project, which was given a
\* refspec of its own, and has a hash
C21_Witness ==
    /\ C21_Case
    /\ env.CHECKOUT_PROJECT = env.GERRIT_PROJECT
    /\ env.REFSPEC[env.CHECKOUT_PROJECT] = V_static
    /\ env.GERRIT_REFSPEC = V_static2
    /\ env.HASH[env.CHECKOUT_PROJECT] = H1
    /\ projects[env.CHECKOUT_PROJECT].refspec.value = V_release
    /\ projects[env.CHECKOUT_PROJECT].refspec.remote = H1

-----------------------------------------------------------------------------
(* ProjectsManager._resolve_missing_refspecs: what it assigns *)

\* the manager as _resolve_missing_refspecs finds it
BeforeResolve == InitBeforeResolve(env, manifests)

C22_Case == last.op = "init" /\ pc = "ready"

\* C22: after construction every registered project has a refspec; those
\* that had none before the pass over the missing refspecs all have
\* refs/heads/<global branch>, the others keep theirs; with no refspec
\* missing the pass queries nothing and changes nothing, the global branch
\* included.
C22_FallbackAssignment ==
    C22_Case =>
        \A m3 \in {BeforeResolve} :
        \A missing \in {Missing(m3.projects)} :
            /\ DOMAIN projects = DOMAIN m3.projects
            /\ \A p \in DOMAIN projects : projects[p].refspec # NoRefSpec
            /\ \A p \in missing :
                  projects[p].refspec = RefOf(S_refs_heads \o branch, None)
            /\ \A p \in DOMAIN projects \ missing :
                  projects[p].refspec = m3.projects[p].refspec
            /\ missing = {} =>
                  /\ ~Calls(last, "gerrit.query_change")
                  /\ branch = m3.branch
                  /\ \A qc \in QcOutcomes :
                        resolve_missing_refspecs(m3, is_windows, qc) = m3

\* two projects without a refspec get the branch of the third
C22_Witness ==
    /\ C22_Case
    /\ DOMAIN projects = Projects
    /\ Missing(BeforeResolve.projects) = {"regressiontests", RELENG}
    /\ projects["gromacs"].refspec.value = V_static
    /\ branch = B_release
    /\ projects[RELENG].refspec.value = V_release

-----------------------------------------------------------------------------
(* ProjectsManager._resolve_missing_refspecs: the known projects *)

\* the pass over the missing refspecs is reached with a refspec missing,
\* no global branch, and n projects other than releng with a refspec
C23_Case(m3) ==
    /\ last.op = "init"
    /\ m3.raised = "none"
    /\ Missing(m3.projects) # {}
    /\ ~Truthy(m3.branch)

C23_AbortsOnTwoKnown(m3) ==
    Cardinality(Known(m3.projects)) >= 2 =>
        /\ pc = "failed"
        /\ last.raised = "AssertionError"
        /\ projects = m3.projects

ResolvePassed == last.stage \in {"set_checked_out", "done"}

\* C23 (as stated): in that case two or more known projects make the
\* constructor fail on the assertion with no refspec assigned, and the
\* branch of exactly one known project becomes the global branch.
C23_KnownProjects ==
    \A m3 \in {BeforeResolve} :
        C23_Case(m3) =>
            /\ C23_AbortsOnTwoKnown(m3)
            /\ \A k \in Known(m3.projects) :
                  Known(m3.projects) = {k} /\ ResolvePassed =>
                      branch = projects[k].branch

\* C23 (amended): the same, but the branch of the one known project
\* becomes the global branch only when the project has one after the
\* lookup; when it has none the global branch is master.
C23_KnownProjectsOrDefault ==
    \A m3 \in {BeforeResolve} :
        C23_Case(m3) =>
            /\ C23_AbortsOnTwoKnown(m3)
            /\ \A k \in Known(m3.projects) :
                  Known(m3.projects) = {k} /\ ResolvePassed =>
                      branch = IF Truthy(projects[k].branch)
                               THEN projects[k].branch ELSE S_master

\* two known projects and releng without a refspec: the assertion fails
C23_Witness ==
    /\ C23_Case(BeforeResolve)
    /\ Known(BeforeResolve.projects) = {"gromacs", "regressiontests"}
    /\ pc = "failed"
    /\ last.raised = "AssertionError"
    /\ projects[RELENG].refspec = NoRefSpec

\* one known project whose branch the lookup gave
C23_WitnessOneKnown ==
    /\ C23_Case(BeforeResolve) /\ ResolvePassed
    /\ Known(BeforeResolve.projects) = {"gromacs"}
    /\ BeforeResolve.projects["gromacs"].branch = None
    /\ branch = B_slash

-----------------------------------------------------------------------------
(* ProjectInfo.set_checked_out: the hashes of a project from git *)

\* set_checked_out returned for a project that is no tarball
C24_Case ==
    /\ last.op = "set_checked_out"
    /\ last.raised = "none"
    /\ ~info_is_tarball(last.pre)

\* C24: after set_checked_out on a project that is no tarball, head hash
\* and title are what the workspace gave for HEAD; the remote hash is what
\* get_remote_hash gave when the refspec is static and the head hash
\* otherwise, so has_correct_hash is true for every refspec that is not
\* static.
C24_HashesAfterCheckout ==
    C24_Case =>
        \A i \in {projects[last.proj]} :
            /\ i.is_checked_out
            /\ last.ws.kind = "ok"
            /\ i.head_hash = last.ws.hash
            /\ i.head_title = last.ws.title
            /\ is_static(i.refspec) =>
                  /\ last.rh.kind \in {"ok", "missing"}
                  /\ i.remote_hash = get_remote_hash(i.refspec, last.rh).hash
            /\ ~is_static(i.refspec) =>
                  /\ last.rh = NoRh
                  /\ i.remote_hash = i.head_hash
                  /\ has_correct_hash(i)

\* a static refspec whose remote hash is not the hash of HEAD
C24_Witness ==
    /\ C24_Case
    /\ is_static(projects[last.proj].refspec)
    /\ last.ws.hash = H1
    /\ last.rh.hash = H2
    /\ ~has_correct_hash(projects[last.proj])

\* a branch refspec, checked out after load_missing_info had stored the
\* remote hash
C24_WitnessBranch ==
    /\ C24_Case
    /\ ~is_static(projects[last.proj].refspec)
    /\ last.pre.remote_hash \in Hashes
    /\ last.pre.remote_hash # last.ws.hash

-----------------------------------------------------------------------------
(* The workspace checkout and set_checked_out *)

\* the workspace checked p out from the refspec p has
CheckedOutByWorkspace(p) ==
    \E i \in CheckoutsOf(p) :
        checkouts[i].ok /\ checkouts[i].refspec = projects[p].refspec

-----------------------------------------------------------------------------
(* The life of a project in the manager *)

\* one step of the manager keeps the registered projects, the checkouts
\* made and the refspecs set
LifecycleStep ==
    pc = "ready" =>
        /\ DOMAIN projects' = DOMAIN projects
        /\ \A p \in DOMAIN projects :
              /\ projects[p].is_checked_out => projects'[p].is_checked_out
              /\ projects[p].refspec # NoRefSpec
                    => projects'[p].refspec # NoRefSpec

NoCheckoutWithoutRefspec ==
    pc = "ready" =>
        \A p \in DOMAIN projects :
            projects[p].is_checked_out => projects[p].refspec # NoRefSpec

\* C26: after construction no call of checkout_project, get_project_info,
\* override_refspec, check_projects or get_build_revisions adds or removes
\* a project, takes back a checkout or clears a refspec, and no project
\* is checked out without a refspec.
C26_LifecycleMonotonic ==
    [](NoCheckoutWithoutRefspec) /\ [][LifecycleStep]_vars

\* get_build_revisions returned after regressiontests was checked out
\* by checkout_project
C26_Witness ==
    /\ pc = "ready"
    /\ last.op = "get_build_revisions"
    /\ last.raised = "none"
    /\ "regressiontests" \in DOMAIN projects
    /\ projects["regressiontests"].is_checked_out
    /\ CheckoutsOf("regressiontests") # {}
    /\ \A p \in Projects : p \in DOMAIN projects

-----------------------------------------------------------------------------
(* What get_build_revisions leaves alone *)

RevStep == pc = "ready" /\ last'.op = "get_build_revisions"

\* the checkout of p and the hashes check_projects compares are kept
KeepsCheckout(p) ==
    projects[p].is_checked_out =>
        /\ projects'[p].is_checked_out
        /\ projects'[p].head_hash = projects[p].head_hash
        /\ projects'[p].remote_hash = projects[p].remote_hash

KeepsTarball(p) ==
    info_is_tarball(projects[p]) => projects'[p] = projects[p]

KeepsBranch(p) ==
    projects[p].branch # None => projects'[p].branch = projects[p].branch

KeepsTitle(p) ==
    projects[p].head_title # None
        => projects'[p].head_title = projects[p].head_title

\* C27 (as stated): get_build_revisions changes the hashes of projects
\* that are not checked out only, changes nothing of a tarball project,
\* leaves the result of check_projects as it was, and fills title and
\* branch only where they are unset.
C27_RevisionsFrame ==
    [][RevStep =>
          /\ \A p \in DOMAIN projects :
                /\ KeepsCheckout(p)
                /\ KeepsTarball(p)
                /\ KeepsBranch(p)
                /\ KeepsTitle(p)
          /\ check_projects(projects') = check_projects(projects)]_vars

\* C27 (amended): as above, except that the title of a project that is
\* not checked out is read again together with its hash: only the title of
\* a checked-out project is kept once set.
C27_RevisionsFrameCheckedOutTitle ==
    [][RevStep =>
          /\ \A p \in DOMAIN projects :
                /\ KeepsCheckout(p)
                /\ KeepsTarball(p)
                /\ KeepsBranch(p)
                /\ projects[p].is_checked_out => KeepsTitle(p)
          /\ check_projects(projects') = check_projects(projects)]_vars

\* get_build_revisions returned: gromacs, not checked out, has the remote
\* hash; regressiontests is a tarball; releng is checked out
C27_Witness ==
    /\ pc = "ready"
    /\ last.op = "get_build_revisions"
    /\ last.raised = "none"
    /\ DOMAIN projects = Projects
    /\ ~projects["gromacs"].is_checked_out
    /\ projects["gromacs"].head_hash = H1
    /\ projects["gromacs"].remote_hash = H1
    /\ info_is_tarball(projects["regressiontests"])
    /\ projects[RELENG].is_checked_out

-----------------------------------------------------------------------------
(* ProjectsManager._init_projects: a trigger on a project with no refspec *)

\* the constructor ran with a trigger that names a project for which no
\* _REFSPEC is given, and reached the lines that handle the trigger
C28_Case ==
    /\ last.op = "init"
    /\ env.GERRIT_PROJECT \in Projects
    /\ env.REFSPEC[env.GERRIT_PROJECT] = None
    /\ InitBeforeTrigger(env, manifests).raised = "none"

\* C28: a trigger that names a project that is not registered changes
\* nothing: no branch, no refspec and not the global branch is taken from
\* it, and the constructor does not fail on it.
C28_UnregisteredTriggerIgnored ==
    C28_Case =>
        /\ InitAfterTrigger(env, manifests) = InitBeforeTrigger(env, manifests)
        /\ last.raised # "KeyError"

\* what the constructor does instead: it fails with KeyError and no project
\* is checked out
C28_UnregisteredTriggerFails ==
    C28_Case =>
        /\ pc = "failed"
        /\ last.raised = "KeyError"
        /\ \A p \in DOMAIN projects : ~projects[p].is_checked_out

-----------------------------------------------------------------------------
(* The branch of refs/heads/<global branch> *)

\* project p, given refs/heads/<global branch> by the pass over the missing
\* refspecs, has that branch in its refspec and as its own, or the branch it
\* had before the pass
RoundTrip(m3, p) ==
    /\ projects[p].refspec.branch = branch
    /\ \/ projects[p].branch = branch
       \/ /\ m3.projects[p].branch # None
          /\ projects[p].branch = m3.projects[p].branch

HasSlash(b) == \E i \in 1..Len(b) : b[i] = "/"

\* C29: for every global branch b, names with a '/' included, the refspec
\* refs/heads/b has branch b, and every project that receives it ends with
\* branch b or with the branch it had, never with a part of b.
C29_BranchRoundTrip ==
    C22_Case =>
        \A m3 \in {BeforeResolve} :
            \A p \in Missing(m3.projects) : RoundTrip(m3, p)

\* the same for the branch names without a '/'
C29_BranchRoundTripNoSlash ==
    (C22_Case /\ ~HasSlash(branch)) =>
        \A m3 \in {BeforeResolve} :
            \A p \in Missing(m3.projects) : RoundTrip(m3, p)

\* a project was given refs/heads/a/b
C29_Case ==
    /\ C22_Case
    /\ branch = B_slash
    /\ Missing(BeforeResolve.projects) # {}

-----------------------------------------------------------------------------
(* StatusReporter: the result reported at the end of the block *)

MarkedFailed ==
    \E i \in 1..Len(reporter.marks) : reporter.marks[i] = "mark_failed"

Exited == reporter.phase = "exited"

\* the result follows the precedence aborted, failed, unstable, success,
\* and is the one written to a .json status file
ResultPrecedence ==
    Exited =>
        /\ reporter.exit.result =
              IF reporter.exit.exc = "AbortError" THEN "ABORTED"
              ELSE IF \/ MarkedFailed
                      \/ reporter.exit.exc \in {"ConfigurationError",
                                                "BuildError"}
              THEN "FAILURE"
              ELSE IF reporter.unsuccessful_reason # <<>> THEN "UNSTABLE"
              ELSE "SUCCESS"
        /\ reporter.exit.contents.kind = "json"
              => reporter.exit.contents.result = reporter.exit.result

FailedHasReason ==
    reporter.failed => reporter.unsuccessful_reason # <<>>

OtherExceptionGoesOn ==
    (Exited /\ reporter.exit.exc \notin HandledErrors \cup {"none"})
        => reporter.exit.returned = "False"

\* C30: after any calls of mark_failed and mark_unstable, the result at the
\* end of the block is ABORTED if AbortError ended it, else FAILURE if the
\* build was marked failed (by a call, or by a ConfigurationError or
\* BuildError ending the block), else UNSTABLE if a reason was recorded,
\* else SUCCESS; a failed reporter always has a reason recorded; and
\* __exit__ returns False for an exception of any other type.
C30_StatusReporter ==
    /\ ResultPrecedence
    /\ FailedHasReason
    /\ OtherExceptionGoesOn

\* AbortError ended the block of a build marked failed before, and the
\* result was written to the .json status file
C30_Witness ==
    /\ Exited
    /\ reporter.exit.exc = "AbortError"
    /\ MarkedFailed
    /\ reporter.failed
    /\ reporter.exit.result = "ABORTED"
    /\ reporter.exit.contents.kind = "json"

\* KeyError ended the block of a build marked unstable before
C30_WitnessOther ==
    /\ Exited
    /\ reporter.exit.exc = "KeyError"
    /\ ~reporter.failed
    /\ Len(reporter.marks) > 0
    /\ reporter.exit.result = "UNSTABLE"
    /\ reporter.exit.returned = "False"

====
